---- MODULE Spec2Model ----
(***************************************************************************)
(* asyncLocalClient (server/concurrent): the ABCI client that runs the     *)
(* stateless half of CheckTx/DeliverTx on a pool, replays the stateful     *)
(* half in queue order on one worker per queue, and makes Commit/EndBlock  *)
(* wait for the in-flight counter.                                         *)
(*                                                                         *)
(* One client is modelled, driven by the three connections a node opens:   *)
(* mempool threads (CheckTxAsync, CheckTxSync, ReCheckTxAsync), one        *)
(* sequential consensus driver (DeliverTxAsync/Sync, BeginBlock, EndBlock, *)
(* Commit, InitChain, SetOption), query threads (Info, Query), and the     *)
(* service's OnStop.  Every step is one shared-memory operation of the     *)
(* source (a lock, a channel operation, a WaitGroup operation, entering or *)
(* leaving the application); local statements ride with the next one.      *)
(***************************************************************************)
EXTENDS Integers, Sequences, FiniteSets, TLC

\* ---------------------------------------------------------------- bounds
\* Items (WorkItems) ever created by CheckTxAsync and DeliverTxAsync together.
MaxTx == 2
\* Capacity of each ordered queue (the source allocates WorkerPoolQueue*2).
QueueCap == 2
\* The capacity where the queue has to fill up: smaller than MaxTx.
SmallQueueCap == 1
\* Clients one creator is asked for (a node opens three connections).
MaxClients == 3

\* ------------------------------------------------------------ processes
Mempool == {"m1", "m2"}
Consensus == {"d"}
Query == {"q1", "q2"}
Stopper == {"s"}
Procs == Mempool \cup Consensus \cup Query \cup Stopper
Pipes == {"check", "deliver"}
None == "none"

\* Request payloads: PreCheckTx/PreDeliverTx reject "bad" and accept "good".
Txs == {"good", "bad"}

VARIABLES
  pc,             \* [Procs -> position inside the current call]
  op,             \* [Procs -> name of the current call, None when idle]
  cur,            \* [Procs -> id of the WorkItem the call created, 0 if none]
  items,          \* sequence of WorkItems, by id
  queue,          \* [Pipes -> sequence of item ids]: checkTxQueue, deliverTxQueue
  closed,         \* [Pipes -> BOOLEAN]: the channel was closed by OnStop
  commitLock,     \* holder of commitLock, or None
  checkTxLowLock, \* holder of checkTxLowLock, or None
  checkTxMidLock, \* holder of checkTxMidLock, or None
  rwWriter,       \* holder of rwLock in write mode, or None
  rwReaders,      \* holders of rwLock in read mode
  wgCommit,       \* the WaitGroup counter
  wpc,            \* [Pipes -> position of the ordered worker]
  wcur,           \* [Pipes -> id of the item the worker holds, 0 if none]
  admitLog,       \* [Pipes -> ids in the order they were sent on the queue]
  callLog,        \* [Pipes -> ids in the order the worker reached the real call
                  \*  (made, or skipped for an item its pre-validation rejected)]
  cbLog,          \* [Pipes -> ids in the order the global callback fired]
  late,           \* [Procs -> BOOLEAN]: the call began while a commit-class call waited
  creatorApp,     \* localAsyncClientCreator.app: the kind of application it wraps
  created,        \* what the calls of NewABCIClient returned, in order
  Callback,       \* asyncLocalClient.Callback: the global callback now set
  acCache,        \* accountCache.cache: [address -> <<cValue>>, <<>> if no entry]
  lruCache,       \* accountStoreCache.cache: [address -> account], absent if no entry
  kvStore,        \* accountStoreCache.store: [address -> encoded account, <<>> if none]
  removed,        \* [address -> "no", or "removed": RemoveAccount was called and no
                  \*  SetAccount since, or "written": and Write ran after that]
  lastOp,         \* the last call on the account keeper or its cache: its name,
                  \* address and account argument
  ibcPackages,    \* the IBC store under the package keys:
                  \* [<<chain, channel, sequence>> -> value, <<>> if none]
  ibcSequences,   \* the IBC store under the channel sequence keys:
                  \* [<<chain, channel>> -> 8 bytes, <<>> if none]
  ibcLog,         \* the calls of CreateIBCPackage, in order, with their results
  claimSequences, \* the oracle store under the claim type sequence keys:
                  \* [claim type -> 8 bytes, <<>> if none]
  prophecies,     \* the oracle store under the prophecy ids:
                  \* [id -> <<prophecy>>, <<>> if none]
  oracleLog       \* the claim messages handled so far (at most one is kept: the
                  \* last, with its outcome)

procVars == <<pc, op, cur, late>>
lockVars == <<commitLock, checkTxLowLock, checkTxMidLock>>
rwVars == <<rwWriter, rwReaders>>
chanVars == <<queue, closed>>
workerVars == <<wpc, wcur>>
logVars == <<admitLog, callLog, cbLog>>
creatorVars == <<creatorApp, created>>
cbVars == <<Callback>>
accountVars == <<acCache, lruCache, kvStore, removed, lastOp>>
ibcVars == <<ibcPackages, ibcSequences, ibcLog>>
oracleVars == <<claimSequences, prophecies, oracleLog>>
frameVars == <<creatorVars, cbVars, accountVars, ibcVars, oracleVars>>
\* A step of the client's calls and workers leaves the creator, the global
\* callback and the account caches alone.
Frame(A) == A /\ UNCHANGED frameVars
vars == <<pc, op, cur, late, items, queue, closed, commitLock, checkTxLowLock,
          checkTxMidLock, rwWriter, rwReaders, wgCommit, wpc, wcur,
          admitLog, callLog, cbLog, creatorApp, created, Callback,
          acCache, lruCache, kvStore, removed, lastOp, ibcPackages,
          ibcSequences, ibcLog, claimSequences, prophecies, oracleLog>>

checkTxQueue == queue["check"]
deliverTxQueue == queue["deliver"]
Worker(k) == IF k = "check" THEN "checkTxWorker" ELSE "deliverTxWorker"

\* ------------------------------------------------------ values and helpers
Nil == <<>>
\* A result of the application: which call produced it, and whether it is OK.
Result(by, ok) == <<by, ok>>
IsOK(res) == res[2]
\* types.ToResponseCheckTx / ToResponseDeliverTx wrap a result in a Response.
ToResponse(k, res) == <<IF k = "check" THEN "ResponseCheckTx" ELSE "ResponseDeliverTx", res>>
\* The application's stateless check is a function of the request alone.
PreValidate(k, tx) ==
  Result(IF k = "check" THEN "PreCheckTx" ELSE "PreDeliverTx", tx = "good")
RealCall(k) == IF k = "check" THEN "CheckTx" ELSE "DeliverTx"

\* WorkItem{reqRes: NewReqRes(req), mtx: locked}; the other fields record
\* what happened to the item.
NewItem_Unlocked(k, tx, isLate) ==
  [kind |-> k, tx |-> tx, gate |-> "open", task |-> "none", resp |-> <<>>,
   done |-> FALSE, pre |-> <<>>, calls |-> 0, real |-> <<>>, reqCb |-> <<>>,
   cb |-> <<>>, late |-> isLate]
NewItem(k, tx, isLate) ==
  [kind |-> k, tx |-> tx,
   gate |-> "held",      \* mtx: held by the submitter until the pool task ends
   task |-> "none",      \* the pool task: none, sched, running, done
   resp |-> Nil,         \* reqRes.Response
   done |-> FALSE,       \* reqRes.Done() was called
   pre |-> Nil,          \* result of the pre-validation
   calls |-> 0,          \* real CheckTx/DeliverTx calls made for the item
   real |-> Nil,         \* result of the real call
   reqCb |-> <<>>,       \* responses handed to the per-request callback
   cb |-> <<>>,          \* responses handed to the global callback
   late |-> isLate]      \* created while a commit-class call waited

\* Once the worker is through with an item nothing in the client reads it
\* again: only its kind and the fact that it is finished are kept.
Retired(k) ==
  [kind |-> k, tx |-> None, gate |-> "open", task |-> "done", resp |-> <<None>>,
   done |-> TRUE, pre |-> Nil, calls |-> 0, real |-> Nil, reqCb |-> <<>>,
   cb |-> <<>>, late |-> FALSE]

Ids == 1..Len(items)
SetItem(i, f, v) == [items EXCEPT ![i][f] = v]

Goto(p, l) == pc' = [pc EXCEPT ![p] = l]
Start(p, o, l) ==
  /\ pc[p] = "idle"
  /\ pc' = [pc EXCEPT ![p] = l]
  /\ op' = [op EXCEPT ![p] = o]
Return(p) ==
  /\ pc' = [pc EXCEPT ![p] = "idle"]
  /\ op' = [op EXCEPT ![p] = None]
  /\ cur' = [cur EXCEPT ![p] = 0]
  /\ late' = [late EXCEPT ![p] = FALSE]

\* sync.Mutex.Lock succeeds when nobody holds the mutex.
MutexFree_Always(m) == TRUE
MutexFree(m) == m = None
\* sync.RWMutex: Lock needs no writer and no reader, RLock needs no writer.
CanLock_IgnoresWriter == rwReaders = {}
CanLock == rwWriter = None /\ rwReaders = {}
CanRLock_Always == TRUE
CanRLock == rwWriter = None
\* wgCommit.Wait() returns when the counter is zero.
WaitReturns_NoWait == TRUE
WaitReturns == wgCommit = 0
\* A send on a buffered channel blocks while the buffer is full.
CanSend_Always(q, cap) == TRUE
CanSend(q, cap) == Len(q) < cap
QueueSend_Front(q, i) == <<i>> \o q
QueueSend(q, i) == Append(q, i)

\* The calls that take commitLock around their application call.
CommitClassOps == {"CommitAsync", "CommitSync", "EndBlockAsync", "EndBlockSync"}
\* A commit-class call holds commitLock, has not yet made its application call
\* and began to wait for the counter (CommitSync never waits).
CommitPending ==
  \E p \in Consensus :
    op[p] \in {"CommitAsync", "EndBlockAsync", "EndBlockSync"} /\ pc[p] \in {"wait", "rw"}

\* ------------------------------------------------------------ construction
\* The application either implements ApplicationCC (the base calls and
\* PreCheckTx, PreDeliverTx, ReCheckTx) or only types.Application.
Apps == {"ApplicationCC", "Application"}
ImplementsCC(a) == a = "ApplicationCC"
NilClient == "nil"
NilError == "nil"
\* appcc, ok := app.(ApplicationCC); if !ok { return nil }; return cli
NewAsyncLocalClient(a) == IF ImplementsCC(a) THEN "asyncLocalClient" ELSE NilClient
\* return NewAsyncLocalClient(l.app, ...), nil
NewABCIClient(a) == [client |-> NewAsyncLocalClient(a), err |-> NilError]

\* The callbacks the host may set; it sets the first before it uses the client.
Callbacks == {"cb0", "cb1"}
\* Account addresses and account contents; Absent: no entry in the LRU
\* cache; NoEntry: no entry in the map; NoBytes: store.Get returns nil.
Addrs == {"a1", "a2"}
Accounts == {"acc1", "acc2"}
Absent == "absent"
NoEntry == <<>>
NoBytes == <<>>
\* NewAccountCache over NewAccountSotreCache over an empty store.
\* IBC: the destination chains and channels that are registered and names
\* that are not; the package payloads.
ChainNames == {"bsc", "nochain"}
ChannelNames == {"bind", "transfer", "nochannel"}
RegisteredChains == {"bsc"}
RegisteredChannels == {"bind", "transfer"}
Payloads == {<<1>>, <<2>>}
MaxIbcCalls == 3
IbcSeqs == 0..MaxIbcCalls
IbcInit ==
  /\ ibcPackages = [k \in RegisteredChains \X RegisteredChannels \X IbcSeqs |-> NoBytes]
  /\ ibcSequences = [k \in RegisteredChains \X RegisteredChannels |-> NoBytes]
  /\ ibcLog = <<>>

\* Oracle: the claim types registered with name and hooks, one registered
\* without hooks and one not registered.
ClaimTypes == {"bind", "transferOut", "noHooks", "noType"}
MaxClaims == 2
ClaimSeqs == 0..MaxClaims
OracleInit ==
  /\ claimSequences = [t \in ClaimTypes |-> NoBytes]
  /\ prophecies = [id \in ClaimTypes \X ClaimSeqs |-> NoEntry]
  /\ oracleLog = <<>>

AccountInit ==
  /\ acCache = [a \in Addrs |-> NoEntry]
  /\ lruCache = [a \in Addrs |-> Absent]
  /\ kvStore = [a \in Addrs |-> NoBytes]
  /\ removed = [a \in Addrs |-> "no"]
  /\ lastOp = [name |-> "none", addr |-> "none", acc |-> "nil"]

\* The client of the model: constructed over an ApplicationCC and started.
Init ==
  /\ Callback = "cb0"
  /\ AccountInit
  /\ IbcInit
  /\ OracleInit
  /\ creatorApp = "ApplicationCC"
  /\ created = <<NewABCIClient(creatorApp)>>
  /\ pc = [p \in Procs |-> "idle"]
  /\ op = [p \in Procs |-> None]
  /\ cur = [p \in Procs |-> 0]
  /\ late = [p \in Procs |-> FALSE]
  /\ items = <<>>
  /\ queue = [k \in Pipes |-> <<>>]
  /\ closed = [k \in Pipes |-> FALSE]
  /\ commitLock = None
  /\ checkTxLowLock = None
  /\ checkTxMidLock = None
  /\ rwWriter = None
  /\ rwReaders = {}
  /\ wgCommit = 0
  /\ wpc = [k \in Pipes |-> "recv"]
  /\ wcur = [k \in Pipes |-> 0]
  /\ admitLog = [k \in Pipes |-> <<>>]
  /\ callLog = [k \in Pipes |-> <<>>]
  /\ cbLog = [k \in Pipes |-> <<>>]

\* ------------------------------------------------------------ CheckTxAsync
\* reqres := NewReqRes(...); mtx.Lock(); app.checkTxLowLock.Lock()
CheckTxAsync_Low(p, n) ==
  /\ p \in Mempool
  /\ Len(items) < n
  /\ MutexFree(checkTxLowLock)
  /\ Start(p, "CheckTxAsync", "mid")
  /\ checkTxLowLock' = p
  /\ \E tx \in Txs :
       items' = Append(items, NewItem("check", tx, CommitPending))
  /\ cur' = [cur EXCEPT ![p] = Len(items) + 1]
  /\ UNCHANGED <<late, commitLock, checkTxMidLock, rwVars, chanVars, wgCommit,
                 workerVars, logVars>>

\* A CheckTxAsync that would not take the arbitration mutex.
CheckTxAsync_Mid_NoLock(p) ==
  /\ op[p] = "CheckTxAsync" /\ pc[p] = "mid"
  /\ Goto(p, "commit")
  /\ UNCHANGED <<op, cur, late, items, lockVars, rwVars, chanVars, wgCommit,
                 workerVars, logVars>>

\* app.checkTxMidLock.Lock()
CheckTxAsync_Mid(p) ==
  /\ op[p] = "CheckTxAsync" /\ pc[p] = "mid"
  /\ MutexFree(checkTxMidLock)
  /\ checkTxMidLock' = p
  /\ Goto(p, "commit")
  /\ UNCHANGED <<op, cur, late, items, commitLock, checkTxLowLock, rwVars, chanVars,
                 wgCommit, workerVars, logVars>>

\* app.commitLock.Lock()
CheckTxAsync_Commit_NoLock(p) ==
  /\ op[p] = "CheckTxAsync" /\ pc[p] = "commit"
  /\ Goto(p, "midU")
  /\ UNCHANGED <<op, cur, late, items, lockVars, rwVars, chanVars, wgCommit,
                 workerVars, logVars>>
CheckTxAsync_Commit(p) ==
  /\ op[p] = "CheckTxAsync" /\ pc[p] = "commit"
  /\ MutexFree(commitLock)
  /\ commitLock' = p
  /\ Goto(p, "midU")
  /\ UNCHANGED <<op, cur, late, items, checkTxLowLock, checkTxMidLock, rwVars,
                 chanVars, wgCommit, workerVars, logVars>>

\* app.checkTxMidLock.Unlock()
CheckTxAsync_MidUnlock_Skipped(p) ==
  /\ op[p] = "CheckTxAsync" /\ pc[p] = "midU"
  /\ Goto(p, "enq")
  /\ UNCHANGED <<op, cur, late, items, lockVars, rwVars, chanVars, wgCommit,
                 workerVars, logVars>>
CheckTxAsync_MidUnlock(p) ==
  /\ op[p] = "CheckTxAsync" /\ pc[p] = "midU"
  /\ checkTxMidLock' = None
  /\ Goto(p, "enq")
  /\ UNCHANGED <<op, cur, late, items, commitLock, checkTxLowLock, rwVars, chanVars,
                 wgCommit, workerVars, logVars>>

\* app.checkTxQueue <- WorkItem{...}: blocks while the queue is full, panics
\* when the queue is closed.
Enqueue(p, k, cap) ==
  /\ pc[p] = "enq"
  /\ IF closed[k]
       THEN /\ Goto(p, "panic")
            /\ UNCHANGED <<queue, admitLog>>
       ELSE /\ CanSend(queue[k], cap)
            /\ queue' = [queue EXCEPT ![k] = QueueSend(@, cur[p])]
            /\ admitLog' = [admitLog EXCEPT ![k] = Append(@, cur[p])]
            /\ Goto(p, "add")
  /\ UNCHANGED <<op, cur, late, items, closed, lockVars, rwVars, wgCommit,
                 workerVars, callLog, cbLog>>

CheckTxAsync_Enqueue(p, cap) ==
  /\ op[p] = "CheckTxAsync"
  /\ Enqueue(p, "check", cap)

\* A CheckTxAsync that would not increment the counter.
CheckTxAsync_Add_Skipped(p) ==
  /\ op[p] = "CheckTxAsync" /\ pc[p] = "add"
  /\ Goto(p, "commitU")
  /\ UNCHANGED <<op, cur, late, items, lockVars, rwVars, chanVars, wgCommit,
                 workerVars, logVars>>

\* app.wgCommit.Add(1)
CheckTxAsync_Add(p) ==
  /\ op[p] = "CheckTxAsync" /\ pc[p] = "add"
  /\ wgCommit' = wgCommit + 1
  /\ Goto(p, "commitU")
  /\ UNCHANGED <<op, cur, late, items, lockVars, rwVars, chanVars, workerVars, logVars>>

\* app.commitLock.Unlock()
CheckTxAsync_CommitUnlock_Kept(p) ==
  /\ op[p] = "CheckTxAsync" /\ pc[p] = "commitU"
  /\ Goto(p, "lowU")
  /\ UNCHANGED <<op, cur, late, items, lockVars, rwVars, chanVars, wgCommit,
                 workerVars, logVars>>
CheckTxAsync_CommitUnlock(p) ==
  /\ op[p] = "CheckTxAsync" /\ pc[p] = "commitU"
  /\ commitLock' = None
  /\ Goto(p, "lowU")
  /\ UNCHANGED <<op, cur, late, items, checkTxLowLock, checkTxMidLock, rwVars,
                 chanVars, wgCommit, workerVars, logVars>>

\* app.checkTxLowLock.Unlock()
CheckTxAsync_LowUnlock(p) ==
  /\ op[p] = "CheckTxAsync" /\ pc[p] = "lowU"
  /\ checkTxLowLock' = None
  /\ Goto(p, "sched")
  /\ UNCHANGED <<op, cur, late, items, commitLock, checkTxMidLock, rwVars, chanVars,
                 wgCommit, workerVars, logVars>>

\* app.checkTxPool.Schedule(func() {...}); return reqres
Schedule(p) ==
  /\ pc[p] = "sched"
  /\ items' = SetItem(cur[p], "task", "sched")
  /\ Return(p)
  /\ UNCHANGED <<lockVars, rwVars, chanVars, wgCommit, workerVars, logVars>>

CheckTxAsync_Schedule(p) ==
  /\ op[p] = "CheckTxAsync"
  /\ Schedule(p)

\* ------------------------------------------------------- the pool's tasks
\* The task starts on a pool thread and enters PreCheckTx/PreDeliverTx; it
\* takes no lock.
PreTask_Start(i) ==
  /\ i \in Ids
  /\ items[i].task = "sched"
  /\ items' = SetItem(i, "task", "running")
  /\ UNCHANGED <<procVars, lockVars, rwVars, chanVars, wgCommit, workerVars, logVars>>

\* if !res.IsOK() { reqres.Response = ToResponse(res) }
PreTaskResponse_Dropped(k, res, old) == old
PreTaskResponse(k, res, old) == IF ~IsOK(res) THEN ToResponse(k, res) ELSE old

\* The pre-validation returns; a non-OK result is stored as the response;
\* the deferred mtx.Unlock() opens the item's gate.
PreTask_Finish_UnlockOnSuccess(i) ==
  /\ i \in Ids
  /\ items[i].task = "running"
  /\ LET res == PreValidate(items[i].kind, items[i].tx) IN
       items' = [items EXCEPT ![i].task = "done",
                              ![i].pre = res,
                              ![i].resp = PreTaskResponse(items[i].kind, res, @),
                              ![i].gate = IF IsOK(res) THEN "open" ELSE @]
  /\ UNCHANGED <<procVars, lockVars, rwVars, chanVars, wgCommit, workerVars, logVars>>
PreTask_Finish(i) ==
  /\ i \in Ids
  /\ items[i].task = "running"
  /\ LET res == PreValidate(items[i].kind, items[i].tx) IN
       items' = [items EXCEPT ![i].task = "done",
                              ![i].pre = res,
                              ![i].resp = PreTaskResponse(items[i].kind, res, @),
                              ![i].gate = "open"]
  /\ UNCHANGED <<procVars, lockVars, rwVars, chanVars, wgCommit, workerVars, logVars>>

\* ------------------------------------------- checkTxWorker, deliverTxWorker
\* for i := range queue: take the oldest item; leave the loop when the queue
\* is closed and empty.
QueueHead(q) == Head(q)
QueueRest(q) == Tail(q)

Worker_Recv_ExitOnClose(k) ==
  /\ wpc[k] = "recv"
  /\ IF closed[k]
       THEN /\ wpc' = [wpc EXCEPT ![k] = "exit"]
            /\ UNCHANGED <<wcur, queue>>
       ELSE /\ queue[k] # <<>>
            /\ wcur' = [wcur EXCEPT ![k] = QueueHead(queue[k])]
            /\ queue' = [queue EXCEPT ![k] = QueueRest(@)]
            /\ wpc' = [wpc EXCEPT ![k] = "lock"]
  /\ UNCHANGED <<procVars, items, closed, lockVars, rwVars, wgCommit, logVars>>
Worker_Recv(k) ==
  /\ wpc[k] = "recv"
  /\ IF queue[k] # <<>>
       THEN /\ wcur' = [wcur EXCEPT ![k] = QueueHead(queue[k])]
            /\ queue' = [queue EXCEPT ![k] = QueueRest(@)]
            /\ wpc' = [wpc EXCEPT ![k] = "lock"]
       ELSE /\ closed[k]
            /\ wpc' = [wpc EXCEPT ![k] = "exit"]
            /\ UNCHANGED <<wcur, queue>>
  /\ UNCHANGED <<procVars, items, closed, lockVars, rwVars, wgCommit, logVars>>

\* i.mtx.Lock(); i.mtx.Unlock(): returns once the pool task released the gate.
GateOpen_NoWait(i) == TRUE
GateOpen(i) == items[i].gate = "open"

\* if i.reqRes.Response == nil
NeedsRealCall(i) == items[i].resp = Nil

\* i.mtx.Lock(); i.mtx.Unlock(); app.rwLock.Lock(): the worker waits for the
\* item's gate, which stays open once opened, and then for the lock; when the
\* response slot is empty it enters the application's CheckTx/DeliverTx.
Worker_Lock(k) ==
  /\ wpc[k] = "lock"
  /\ GateOpen(wcur[k])
  /\ CanLock
  /\ rwWriter' = Worker(k)
  /\ IF NeedsRealCall(wcur[k])
       THEN /\ wpc' = [wpc EXCEPT ![k] = "call"]
            /\ items' = SetItem(wcur[k], "calls", items[wcur[k]].calls + 1)
       ELSE /\ wpc' = [wpc EXCEPT ![k] = "done"]
            /\ UNCHANGED items
  /\ callLog' = [callLog EXCEPT ![k] = Append(@, wcur[k])]
  /\ UNCHANGED <<procVars, chanVars, lockVars, rwReaders, wgCommit, wcur,
                 admitLog, cbLog>>

\* The same in three steps: i.mtx.Lock() takes the gate once the pool task
\* has released it, i.mtx.Unlock() releases it again, app.rwLock.Lock()
\* follows.
Worker_GateLock(k) ==
  /\ wpc[k] = "lock"
  /\ GateOpen(wcur[k])
  /\ items' = SetItem(wcur[k], "gate", Worker(k))
  /\ wpc' = [wpc EXCEPT ![k] = "gateU"]
  /\ UNCHANGED <<procVars, chanVars, lockVars, rwVars, wgCommit, wcur, logVars>>
Worker_GateUnlock(k) ==
  /\ wpc[k] = "gateU"
  /\ items' = SetItem(wcur[k], "gate", "open")
  /\ wpc' = [wpc EXCEPT ![k] = "rw"]
  /\ UNCHANGED <<procVars, chanVars, lockVars, rwVars, wgCommit, wcur, logVars>>
Worker_RwLock(k) ==
  /\ wpc[k] = "rw"
  /\ CanLock
  /\ rwWriter' = Worker(k)
  /\ IF NeedsRealCall(wcur[k])
       THEN /\ wpc' = [wpc EXCEPT ![k] = "call"]
            /\ items' = SetItem(wcur[k], "calls", items[wcur[k]].calls + 1)
       ELSE /\ wpc' = [wpc EXCEPT ![k] = "done"]
            /\ UNCHANGED items
  /\ callLog' = [callLog EXCEPT ![k] = Append(@, wcur[k])]
  /\ UNCHANGED <<procVars, chanVars, lockVars, rwReaders, wgCommit, wcur,
                 admitLog, cbLog>>

\* res := app.Application.CheckTx(tx); i.reqRes.Response = ToResponse(res)
Worker_Return_Dropped(k) ==
  /\ wpc[k] = "call"
  /\ \E ok \in BOOLEAN :
       items' = [items EXCEPT ![wcur[k]].real = Result(RealCall(k), ok)]
  /\ wpc' = [wpc EXCEPT ![k] = "done"]
  /\ UNCHANGED <<procVars, chanVars, lockVars, rwVars, wgCommit, wcur, logVars>>
Worker_Return(k) ==
  /\ wpc[k] = "call"
  /\ \E ok \in BOOLEAN :
       LET res == Result(RealCall(k), ok) IN
         items' = [items EXCEPT ![wcur[k]].real = res,
                                ![wcur[k]].resp = ToResponse(k, res)]
  /\ wpc' = [wpc EXCEPT ![k] = "done"]
  /\ UNCHANGED <<procVars, chanVars, lockVars, rwVars, wgCommit, wcur, logVars>>

\* i.reqRes.Done(); app.wgCommit.Done()
Worker_Done_OnlyAfterCall(k) ==
  /\ wpc[k] = "done"
  /\ items' = SetItem(wcur[k], "done", TRUE)
  /\ wgCommit' = IF items[wcur[k]].calls > 0 THEN wgCommit - 1 ELSE wgCommit
  /\ wpc' = [wpc EXCEPT ![k] = "cb"]
  /\ UNCHANGED <<procVars, chanVars, lockVars, rwVars, wcur, logVars>>
Worker_Done_Unlocks(k) ==
  /\ wpc[k] = "done"
  /\ items' = SetItem(wcur[k], "done", TRUE)
  /\ wgCommit' = wgCommit - 1
  /\ rwWriter' = None
  /\ wpc' = [wpc EXCEPT ![k] = "cb"]
  /\ UNCHANGED <<procVars, chanVars, lockVars, rwReaders, wcur, logVars>>
Worker_Done(k) ==
  /\ wpc[k] = "done"
  /\ items' = SetItem(wcur[k], "done", TRUE)
  /\ wgCommit' = wgCommit - 1
  /\ wpc' = [wpc EXCEPT ![k] = "cb"]
  /\ UNCHANGED <<procVars, chanVars, lockVars, rwVars, wcur, logVars>>

\* if cb := i.reqRes.GetCallback(); cb != nil { cb(Response) };
\* app.Callback(Request, Response)
Worker_Callback(k) ==
  /\ wpc[k] = "cb"
  /\ LET i == wcur[k] IN
       /\ \E hasCb \in BOOLEAN :
            items' = [items EXCEPT
                        ![i].reqCb = IF hasCb THEN Append(@, items[i].resp) ELSE @,
                        ![i].cb = Append(@, items[i].resp)]
       /\ cbLog' = [cbLog EXCEPT ![k] = Append(@, i)]
  /\ wpc' = [wpc EXCEPT ![k] = "unlock"]
  /\ UNCHANGED <<procVars, chanVars, lockVars, rwVars, wgCommit, wcur,
                 admitLog, callLog>>

\* The same in two steps: the per-request callback, when one is attached,
\* and then app.Callback.
Worker_ReqCallback(k) ==
  /\ wpc[k] = "cb"
  /\ \E hasCb \in BOOLEAN :
       items' = [items EXCEPT
                   ![wcur[k]].reqCb = IF hasCb THEN Append(@, items[wcur[k]].resp) ELSE @]
  /\ wpc' = [wpc EXCEPT ![k] = "gcb"]
  /\ UNCHANGED <<procVars, chanVars, lockVars, rwVars, wgCommit, wcur, logVars>>
Worker_GlobalCallback(k) ==
  /\ wpc[k] = "gcb"
  /\ items' = [items EXCEPT ![wcur[k]].cb = Append(@, items[wcur[k]].resp)]
  /\ cbLog' = [cbLog EXCEPT ![k] = Append(@, wcur[k])]
  /\ wpc' = [wpc EXCEPT ![k] = "unlock"]
  /\ UNCHANGED <<procVars, chanVars, lockVars, rwVars, wgCommit, wcur,
                 admitLog, callLog>>

\* the deferred app.rwLock.Unlock(); back to the range loop
Worker_Unlock(k) ==
  /\ wpc[k] = "unlock"
  /\ rwWriter' = None
  /\ wpc' = [wpc EXCEPT ![k] = "recv"]
  /\ items' = [items EXCEPT ![wcur[k]] = Retired(k)]
  /\ wcur' = [wcur EXCEPT ![k] = 0]
  /\ UNCHANGED <<procVars, chanVars, lockVars, rwReaders, wgCommit, logVars>>

\* ---------------------------------------------------------- DeliverTxAsync
\* reqres := NewReqRes(...); mtx.Lock(); app.deliverTxQueue <- WorkItem{...}
\* (no lock is taken).  The item exists from the moment the call begins.
DeliverTxAsync_Begin(p, n) ==
  /\ p \in Consensus
  /\ Len(items) < n
  /\ Start(p, "DeliverTxAsync", "enq")
  /\ \E tx \in Txs :
       items' = Append(items, NewItem("deliver", tx, CommitPending))
  /\ cur' = [cur EXCEPT ![p] = Len(items) + 1]
  /\ UNCHANGED <<late, lockVars, rwVars, chanVars, wgCommit, workerVars, logVars>>

DeliverTxAsync_Enqueue(p, cap) ==
  /\ op[p] = "DeliverTxAsync"
  /\ Enqueue(p, "deliver", cap)

\* app.wgCommit.Add(1)
DeliverTxAsync_Add(p) ==
  /\ op[p] = "DeliverTxAsync" /\ pc[p] = "add"
  /\ wgCommit' = wgCommit + 1
  /\ Goto(p, "sched")
  /\ UNCHANGED <<op, cur, late, items, lockVars, rwVars, chanVars, workerVars, logVars>>

\* app.deliverTxPool.Schedule(func() {...}); return reqres
DeliverTxAsync_Schedule(p) ==
  /\ op[p] = "DeliverTxAsync"
  /\ Schedule(p)

\* ------------------------- CommitAsync, CommitSync, EndBlockAsync, EndBlockSync
AsyncOps == {"CommitAsync", "EndBlockAsync", "SetOptionAsync", "InitChainAsync",
             "BeginBlockAsync", "ReCheckTxAsync", "InfoAsync", "QueryAsync"}
\* CommitSync does not call wgCommit.Wait(); the other three do.
WaitsForCounter(o) == o \in {"CommitAsync", "EndBlockAsync", "EndBlockSync"}

\* app.checkTxMidLock.Lock()
CommitClass_Mid(p, o) ==
  /\ p \in Consensus /\ o \in CommitClassOps
  /\ MutexFree(checkTxMidLock)
  /\ Start(p, o, "commit")
  /\ checkTxMidLock' = p
  /\ UNCHANGED <<cur, late, items, commitLock, checkTxLowLock, rwVars, chanVars,
                 wgCommit, workerVars, logVars>>

\* The same in two steps: the call begins (app.log.Debug("Trying to get ...
\* lock")) and then waits in app.checkTxMidLock.Lock().
CommitClass_Begin(p, o) ==
  /\ p \in Consensus /\ o \in CommitClassOps
  /\ Start(p, o, "begin")
  /\ UNCHANGED <<cur, late, items, lockVars, rwVars, chanVars, wgCommit,
                 workerVars, logVars>>
CommitClass_MidLock(p) ==
  /\ op[p] \in CommitClassOps /\ pc[p] = "begin"
  /\ MutexFree(checkTxMidLock)
  /\ checkTxMidLock' = p
  /\ Goto(p, "commit")
  /\ UNCHANGED <<op, cur, late, items, commitLock, checkTxLowLock, rwVars, chanVars,
                 wgCommit, workerVars, logVars>>

\* app.commitLock.Lock()
CommitClass_Commit_NoLock(p) ==
  /\ op[p] \in CommitClassOps /\ pc[p] = "commit"
  /\ Goto(p, "midU")
  /\ UNCHANGED <<op, cur, late, items, lockVars, rwVars, chanVars, wgCommit,
                 workerVars, logVars>>
CommitClass_Commit(p) ==
  /\ op[p] \in CommitClassOps /\ pc[p] = "commit"
  /\ MutexFree(commitLock)
  /\ commitLock' = p
  /\ Goto(p, "midU")
  /\ UNCHANGED <<op, cur, late, items, checkTxLowLock, checkTxMidLock, rwVars,
                 chanVars, wgCommit, workerVars, logVars>>

\* app.checkTxMidLock.Unlock()
CommitClass_MidUnlock(p) ==
  /\ op[p] \in CommitClassOps /\ pc[p] = "midU"
  /\ checkTxMidLock' = None
  /\ Goto(p, IF WaitsForCounter(op[p]) THEN "wait" ELSE "rw")
  /\ UNCHANGED <<op, cur, late, items, commitLock, checkTxLowLock, rwVars, chanVars,
                 wgCommit, workerVars, logVars>>

\* app.wgCommit.Wait()
CommitClass_Wait(p) ==
  /\ op[p] \in CommitClassOps /\ pc[p] = "wait"
  /\ WaitReturns
  /\ Goto(p, "rw")
  /\ UNCHANGED <<op, cur, late, items, lockVars, rwVars, chanVars, wgCommit,
                 workerVars, logVars>>

\* app.rwLock.Lock(); res := app.Application.Commit() / EndBlock(req): the
\* call enters the application.  Requests that began during this call's wait
\* are no longer "after the wait and before the call".
CommitClass_Call(p) ==
  /\ op[p] \in CommitClassOps /\ pc[p] = "rw"
  /\ CanLock
  /\ rwWriter' = p
  /\ Goto(p, "call")
  /\ items' = [i \in Ids |-> [items[i] EXCEPT !.late = FALSE]]
  /\ late' = [q \in Procs |-> FALSE]
  /\ UNCHANGED <<op, cur, lockVars, rwReaders, chanVars, wgCommit, workerVars, logVars>>

\* The application returns.  The Async form evaluates app.callback(...) in its
\* return statement, before the deferred unlocks; the Sync form goes straight
\* to the deferred app.rwLock.Unlock().
CommitClass_Return_UnlockFirst(p) ==
  /\ op[p] \in CommitClassOps /\ pc[p] = "call"
  /\ Goto(p, IF op[p] \in AsyncOps THEN "cb" ELSE "commitU")
  /\ rwWriter' = None
  /\ UNCHANGED <<op, cur, late, items, lockVars, rwReaders, chanVars, wgCommit,
                 workerVars, logVars>>
CommitClass_Return(p) ==
  /\ op[p] \in CommitClassOps /\ pc[p] = "call"
  /\ IF op[p] \in AsyncOps
       THEN /\ Goto(p, "cb")
            /\ UNCHANGED rwWriter
       ELSE /\ Goto(p, "commitU")
            /\ rwWriter' = None
  /\ UNCHANGED <<op, cur, late, items, lockVars, rwReaders, chanVars, wgCommit,
                 workerVars, logVars>>

\* app.Callback(req, res) returns; the deferred app.rwLock.Unlock() runs.
CommitClass_Callback(p) ==
  /\ op[p] \in CommitClassOps /\ pc[p] = "cb"
  /\ rwWriter' = None
  /\ Goto(p, "commitU")
  /\ UNCHANGED <<op, cur, late, items, lockVars, rwReaders, chanVars, wgCommit,
                 workerVars, logVars>>

\* the deferred app.commitLock.Unlock(); the call returns
CommitClass_CommitUnlock(p) ==
  /\ op[p] \in CommitClassOps /\ pc[p] = "commitU"
  /\ commitLock' = None
  /\ Return(p)
  /\ UNCHANGED <<items, checkTxLowLock, checkTxMidLock, rwVars, chanVars, wgCommit,
                 workerVars, logVars>>

\* ---------------------------------------------- direct calls in write mode
ConsensusWriteOps == {"SetOptionAsync", "SetOptionSync", "InitChainAsync",
                      "InitChainSync", "BeginBlockAsync", "BeginBlockSync",
                      "DeliverTxSync"}
MempoolWriteOps == {"ReCheckTxAsync", "CheckTxSync"}
DirectWriteOps == ConsensusWriteOps \cup MempoolWriteOps
\* The calls that hand a transaction to the application's CheckTx/DeliverTx.
TxSyncOps == {"CheckTxSync", "DeliverTxSync"}
\* Which thread issues which direct call: the consensus driver its own, one
\* mempool thread CheckTxSync and the other ReCheckTxAsync.
WriteOpsOf(p) ==
  IF p \in Consensus THEN ConsensusWriteOps
  ELSE IF p = "m1" THEN {"CheckTxSync"}
  ELSE IF p = "m2" THEN {"ReCheckTxAsync"}
  ELSE {}

\* A direct call that would enter the application without rwLock.Lock().
DirectWrite_Call_Unlocked(p, o) ==
  /\ o \in WriteOpsOf(p)
  /\ Start(p, o, "call")
  /\ late' = [late EXCEPT ![p] = o \in TxSyncOps /\ CommitPending]
  /\ UNCHANGED <<cur, items, lockVars, rwVars, chanVars, wgCommit, workerVars,
                 logVars>>

\* A direct call that would take the commit mutex as a commit-class call does.
DirectWrite_Call_Committing(p, o) ==
  /\ o \in WriteOpsOf(p)
  /\ CanLock /\ MutexFree(commitLock)
  /\ Start(p, o, "call")
  /\ rwWriter' = p
  /\ commitLock' = p
  /\ late' = [late EXCEPT ![p] = o \in TxSyncOps /\ CommitPending]
  /\ UNCHANGED <<cur, items, checkTxLowLock, checkTxMidLock, rwReaders, chanVars,
                 wgCommit, workerVars, logVars>>

\* app.rwLock.Lock(); defer app.rwLock.Unlock(); res := app.Application.X(req)
DirectWrite_Call(p, o) ==
  /\ o \in WriteOpsOf(p)
  /\ CanLock
  /\ Start(p, o, "call")
  /\ rwWriter' = p
  /\ late' = [late EXCEPT ![p] = o \in TxSyncOps /\ CommitPending]
  /\ UNCHANGED <<cur, items, lockVars, rwReaders, chanVars, wgCommit, workerVars,
                 logVars>>

\* The application returns.  An Async call goes on to app.callback(...), still
\* under the lock; a Sync call runs the deferred unlock and returns.
DirectWrite_Return(p) ==
  /\ op[p] \in DirectWriteOps /\ pc[p] = "call"
  /\ IF op[p] \in AsyncOps
       THEN /\ Goto(p, "cb")
            /\ UNCHANGED <<op, cur, late, rwWriter>>
       ELSE /\ Return(p)
            /\ rwWriter' = None
  /\ UNCHANGED <<items, lockVars, rwReaders, chanVars, wgCommit, workerVars, logVars>>

\* app.Callback(req, res) returns; the deferred app.rwLock.Unlock() runs.
DirectWrite_Callback(p) ==
  /\ op[p] \in DirectWriteOps /\ pc[p] = "cb"
  /\ rwWriter' = None
  /\ Return(p)
  /\ UNCHANGED <<items, lockVars, rwReaders, chanVars, wgCommit, workerVars, logVars>>

\* ----------------------------------------------- direct calls in read mode
ReadOps == {"InfoAsync", "InfoSync", "QueryAsync", "QuerySync"}
\* One query thread issues Info, the other Query.
ReadOpsOf(p) ==
  IF p = "q1" THEN {"InfoAsync", "InfoSync"}
  ELSE IF p = "q2" THEN {"QueryAsync", "QuerySync"}
  ELSE {}

\* app.rwLock.RLock(); res := app.Application.Info(req) / Query(req)
RLockAcquire_Skipped(p) == rwReaders
RLockAcquire(p) == rwReaders \cup {p}

Read_Call(p, o) ==
  /\ o \in ReadOpsOf(p)
  /\ CanRLock
  /\ Start(p, o, "call")
  /\ rwReaders' = RLockAcquire(p)
  /\ UNCHANGED <<cur, late, items, lockVars, rwWriter, chanVars, wgCommit,
                 workerVars, logVars>>

\* The application returns; app.rwLock.RUnlock(); an Async call then runs
\* app.callback(...) outside the lock, which touches nothing shared, and the
\* call returns.
Read_Return(p) ==
  /\ op[p] \in ReadOps /\ pc[p] = "call"
  /\ rwReaders' = rwReaders \ {p}
  /\ Return(p)
  /\ UNCHANGED <<items, lockVars, rwWriter, chanVars, wgCommit, workerVars, logVars>>

\* ------------------------------------------------------------------ OnStop
\* app.BaseService.OnStop(); app.commitLock.Lock()
OnStop_Lock(p) ==
  /\ p \in Stopper
  /\ MutexFree(commitLock)
  /\ Start(p, "OnStop", "close1")
  /\ commitLock' = p
  /\ UNCHANGED <<cur, late, items, checkTxLowLock, checkTxMidLock, rwVars, chanVars,
                 wgCommit, workerVars, logVars>>

\* close(app.checkTxQueue)
OnStop_CloseCheck(p) ==
  /\ op[p] = "OnStop" /\ pc[p] = "close1"
  /\ closed' = [closed EXCEPT !["check"] = TRUE]
  /\ Goto(p, "close2")
  /\ UNCHANGED <<op, cur, late, items, queue, lockVars, rwVars, wgCommit,
                 workerVars, logVars>>

\* close(app.deliverTxQueue)
OnStop_CloseDeliver(p) ==
  /\ op[p] = "OnStop" /\ pc[p] = "close2"
  /\ closed' = [closed EXCEPT !["deliver"] = TRUE]
  /\ Goto(p, "commitU")
  /\ UNCHANGED <<op, cur, late, items, queue, lockVars, rwVars, wgCommit,
                 workerVars, logVars>>

\* app.commitLock.Unlock(); the service is stopped and OnStop is not run again
OnStop_Unlock(p) ==
  /\ op[p] = "OnStop" /\ pc[p] = "commitU"
  /\ commitLock' = None
  /\ Goto(p, "stopped")
  /\ UNCHANGED <<op, cur, late, items, checkTxLowLock, checkTxMidLock, rwVars,
                 chanVars, wgCommit, workerVars, logVars>>

\* --------------------------------------------------------------------- Next
\* The two pipelines and the commit barrier, with at most n items and queues
\* of capacity cap.
PipelineNext(n, cap) ==
  UNCHANGED frameVars /\ (
  \/ \E p \in Procs :
       \/ CheckTxAsync_Low(p, n)
       \/ CheckTxAsync_Mid(p)
       \/ CheckTxAsync_Commit(p)
       \/ CheckTxAsync_MidUnlock(p)
       \/ CheckTxAsync_Enqueue(p, cap)
       \/ CheckTxAsync_Add(p)
       \/ CheckTxAsync_CommitUnlock(p)
       \/ CheckTxAsync_LowUnlock(p)
       \/ CheckTxAsync_Schedule(p)
       \/ DeliverTxAsync_Begin(p, n)
       \/ DeliverTxAsync_Enqueue(p, cap)
       \/ DeliverTxAsync_Add(p)
       \/ DeliverTxAsync_Schedule(p)
       \/ \E o \in CommitClassOps : CommitClass_Mid(p, o)
       \/ CommitClass_Commit(p)
       \/ CommitClass_MidUnlock(p)
       \/ CommitClass_Wait(p)
       \/ CommitClass_Call(p)
       \/ CommitClass_Return(p)
       \/ CommitClass_Callback(p)
       \/ CommitClass_CommitUnlock(p)
  \/ \E i \in 1..n :
       \/ PreTask_Start(i)
       \/ PreTask_Finish(i)
  \/ \E k \in Pipes :
       \/ Worker_Recv(k)
       \/ Worker_Lock(k)
       \/ Worker_Return(k)
       \/ Worker_Done(k)
       \/ Worker_Callback(k)
       \/ Worker_Unlock(k))

\* The calls outside the pipelines.
DirectNext ==
  UNCHANGED frameVars /\ (
  \E p \in Procs :
    \/ \E o \in DirectWriteOps : DirectWrite_Call(p, o)
    \/ DirectWrite_Return(p)
    \/ DirectWrite_Callback(p)
    \/ \E o \in ReadOps : Read_Call(p, o)
    \/ Read_Return(p))

StopNext ==
  UNCHANGED frameVars /\ (
  \E p \in Procs :
    \/ OnStop_Lock(p)
    \/ OnStop_CloseCheck(p)
    \/ OnStop_CloseDeliver(p)
    \/ OnStop_Unlock(p))

\* Every call of the client but OnStop.
Next == PipelineNext(MaxTx, QueueCap) \/ DirectNext
Spec == Init /\ [][Next]_vars

\* The pipelines and the commit barrier alone.
PipeNext == PipelineNext(MaxTx, QueueCap)
PipeSpec == Init /\ [][PipeNext]_vars

\* The pipelines and the commit barrier with queues that fill up, under the
\* scheduling the Go runtime provides: a goroutine that can take a step
\* takes it (the application's calls and the callbacks return), and a
\* goroutine waiting for a sync.Mutex or sync.RWMutex is not passed over
\* for ever (the locks hand over to a starving waiter).  Beginning a new call
\* is the host's choice and carries no fairness.
WorkerFair(k) ==
  /\ WF_vars(Frame(Worker_Recv(k) \/ Worker_Return(k) \/ Worker_Done(k)
               \/ Worker_Callback(k) \/ Worker_Unlock(k)))
  /\ SF_vars(Frame(Worker_Lock(k)))
TaskFair(i) == WF_vars(Frame(PreTask_Start(i) \/ PreTask_Finish(i)))
CallerFair(p, cap) ==
  /\ WF_vars(Frame(CheckTxAsync_MidUnlock(p) \/ CheckTxAsync_Enqueue(p, cap)
               \/ CheckTxAsync_Add(p) \/ CheckTxAsync_CommitUnlock(p)
               \/ CheckTxAsync_LowUnlock(p) \/ CheckTxAsync_Schedule(p)
               \/ DeliverTxAsync_Enqueue(p, cap) \/ DeliverTxAsync_Add(p)
               \/ DeliverTxAsync_Schedule(p)
               \/ CommitClass_MidUnlock(p) \/ CommitClass_Wait(p)
               \/ CommitClass_Return(p) \/ CommitClass_Callback(p)
               \/ CommitClass_CommitUnlock(p)))
  /\ SF_vars(Frame(CheckTxAsync_Mid(p) \/ CheckTxAsync_Commit(p)
               \/ CommitClass_Commit(p) \/ CommitClass_Call(p)))
FullQueueNext == PipelineNext(MaxTx, SmallQueueCap)
FairPipeSpec ==
  /\ Init /\ [][FullQueueNext]_vars
  /\ \A k \in Pipes : WorkerFair(k)
  /\ \A i \in 1..MaxTx : TaskFair(i)
  /\ \A p \in Mempool \cup Consensus : CallerFair(p, SmallQueueCap)

\* A stream of submissions that never ends.  The WorkItems the workers are
\* through with go out of scope; once all of them have, the record of them
\* (and of the order of what happened to them) is dropped, so that the next
\* submissions find room within the bound.
Stream_Recycle ==
  /\ items # <<>>
  /\ \A i \in Ids : items[i] = Retired(items[i].kind)
  /\ \A p \in Procs : cur[p] = 0
  /\ items' = <<>>
  /\ admitLog' = [k \in Pipes |-> <<>>]
  /\ callLog' = [k \in Pipes |-> <<>>]
  /\ cbLog' = [k \in Pipes |-> <<>>]
  /\ UNCHANGED <<procVars, lockVars, rwVars, chanVars, wgCommit, workerVars>>
StreamNext ==
  \/ PipelineNext(MaxTx, QueueCap)
  \/ /\ UNCHANGED frameVars
     /\ \/ \E p \in Procs :
             \/ \E o \in CommitClassOps : CommitClass_Begin(p, o)
             \/ CommitClass_MidLock(p)
        \/ Stream_Recycle
\* Every goroutine that can stay able to take its next step takes it; the one
\* lock whose waiter can be overtaken again and again, checkTxMidLock, is
\* handed to the commit-class call that waits for it (sync.Mutex does not let
\* a waiter starve).
WorkerSteps(k) ==
  WF_vars(Frame(Worker_Recv(k) \/ Worker_Lock(k) \/ Worker_Return(k) \/ Worker_Done(k)
            \/ Worker_Callback(k) \/ Worker_Unlock(k)))
CallerSteps(p, cap) ==
  WF_vars(Frame(CheckTxAsync_Mid(p) \/ CheckTxAsync_Commit(p)
            \/ CheckTxAsync_MidUnlock(p) \/ CheckTxAsync_Enqueue(p, cap)
            \/ CheckTxAsync_Add(p) \/ CheckTxAsync_CommitUnlock(p)
            \/ CheckTxAsync_LowUnlock(p) \/ CheckTxAsync_Schedule(p)
            \/ DeliverTxAsync_Enqueue(p, cap) \/ DeliverTxAsync_Add(p)
            \/ DeliverTxAsync_Schedule(p)
            \/ CommitClass_Commit(p) \/ CommitClass_MidUnlock(p)
            \/ CommitClass_Wait(p) \/ CommitClass_Call(p)
            \/ CommitClass_Return(p) \/ CommitClass_Callback(p)
            \/ CommitClass_CommitUnlock(p)))
FairStreamSpec ==
  /\ Init /\ [][StreamNext]_vars
  /\ \A k \in Pipes : WorkerSteps(k)
  /\ \A i \in 1..MaxTx : TaskFair(i)
  /\ \A p \in Mempool \cup Consensus : CallerSteps(p, QueueCap)
  /\ \A p \in Consensus : SF_vars(Frame(CommitClass_MidLock(p)))

\* The pipelines, the commit barrier and the shutdown.
StopSpecNext == PipelineNext(MaxTx, QueueCap) \/ StopNext
StopSpec == Init /\ [][StopSpecNext]_vars
\* The same where every goroutine that can stay able to take its next step
\* takes it, OnStop included once it has begun, and a worker that waits for
\* rwLock is not overtaken for ever.
StopFair(p) ==
  WF_vars(Frame(OnStop_CloseCheck(p) \/ OnStop_CloseDeliver(p) \/ OnStop_Unlock(p)))
FairStopSpec ==
  /\ StopSpec
  /\ \A k \in Pipes : WorkerFair(k)
  /\ \A i \in 1..MaxTx : TaskFair(i)
  /\ \A p \in Mempool \cup Consensus : CallerSteps(p, QueueCap)
  /\ \A p \in Stopper : StopFair(p)

\* The pipelines with the worker's wait for the gate in its own steps.
GateNext ==
  \/ PipelineNext(MaxTx, QueueCap)
  \/ Frame(\E k \in Pipes :
             \/ Worker_GateLock(k)
             \/ Worker_GateUnlock(k)
             \/ Worker_RwLock(k))
GateSpec == Init /\ [][GateNext]_vars

\* The pipelines with the worker's two callbacks in their own steps.
CallbackNext ==
  \/ PipelineNext(MaxTx, QueueCap)
  \/ Frame(\E k \in Pipes :
             \/ Worker_ReqCallback(k)
             \/ Worker_GlobalCallback(k))
CallbackSpec == Init /\ [][CallbackNext]_vars

\* The creator: NewAsyncLocalClientCreator(app, log) wraps any
\* types.Application; each call of NewABCIClient returns a client and an
\* error.  The first client returned is used as soon as it is there and is
\* not nil.
CreatorInit ==
  /\ Callback = "cb0"
  /\ AccountInit
  /\ IbcInit
  /\ OracleInit
  /\ creatorApp \in Apps
  /\ created = <<>>
  /\ pc = [p \in Procs |-> "idle"]
  /\ op = [p \in Procs |-> None]
  /\ cur = [p \in Procs |-> 0]
  /\ late = [p \in Procs |-> FALSE]
  /\ items = <<>>
  /\ queue = [k \in Pipes |-> <<>>]
  /\ closed = [k \in Pipes |-> FALSE]
  /\ commitLock = None /\ checkTxLowLock = None /\ checkTxMidLock = None
  /\ rwWriter = None /\ rwReaders = {}
  /\ wgCommit = 0
  /\ wpc = [k \in Pipes |-> "recv"]
  /\ wcur = [k \in Pipes |-> 0]
  /\ admitLog = [k \in Pipes |-> <<>>]
  /\ callLog = [k \in Pipes |-> <<>>]
  /\ cbLog = [k \in Pipes |-> <<>>]
NewABCIClient_Call ==
  /\ Len(created) < MaxClients
  /\ created' = Append(created, NewABCIClient(creatorApp))
  /\ UNCHANGED <<creatorApp, procVars, items, lockVars, rwVars, chanVars, wgCommit,
                 workerVars, logVars, cbVars, accountVars, ibcVars, oracleVars>>
ClientInUse == created # <<>> /\ created[1].client # NilClient
CreatorNext ==
  \/ NewABCIClient_Call
  \/ ClientInUse /\ PipelineNext(1, QueueCap)
CreatorSpec == CreatorInit /\ [][CreatorNext]_vars

\* ------------------------------------------------------ SetResponseCallback
\* Called by the node's service thread.
\* A SetResponseCallback that would not take the lock.
SetResponseCallback_Lock_Skipped(p) ==
  /\ p \in Stopper
  /\ Start(p, "SetResponseCallback", "set")
  /\ UNCHANGED <<cur, late, items, lockVars, rwVars, chanVars, wgCommit,
                 workerVars, logVars, Callback>>

\* app.rwLock.Lock(); defer app.rwLock.Unlock()
SetResponseCallback_Lock(p) ==
  /\ p \in Stopper
  /\ CanLock
  /\ Start(p, "SetResponseCallback", "set")
  /\ rwWriter' = p
  /\ UNCHANGED <<cur, late, items, lockVars, rwReaders, chanVars, wgCommit,
                 workerVars, logVars, Callback>>

\* app.Callback = cb
SetResponseCallback_Set(p, cb) ==
  /\ op[p] = "SetResponseCallback" /\ pc[p] = "set"
  /\ Callback' = cb
  /\ Goto(p, "rwU")
  /\ UNCHANGED <<op, cur, late, items, lockVars, rwVars, chanVars, wgCommit,
                 workerVars, logVars>>

\* the deferred app.rwLock.Unlock(); the call returns
SetResponseCallback_Unlock(p) ==
  /\ op[p] = "SetResponseCallback" /\ pc[p] = "rwU"
  /\ rwWriter' = None
  /\ Return(p)
  /\ UNCHANGED <<items, lockVars, rwReaders, chanVars, wgCommit, workerVars,
                 logVars, Callback>>

SetCallbackNext ==
  \/ PipelineNext(MaxTx, QueueCap)
  \/ DirectNext
  \/ /\ UNCHANGED <<creatorVars, accountVars, ibcVars, oracleVars>>
     /\ \E p \in Procs :
          \/ SetResponseCallback_Lock(p)
          \/ \E cb \in Callbacks : SetResponseCallback_Set(p, cb)
          \/ SetResponseCallback_Unlock(p)
SetCallbackSpec == Init /\ [][SetCallbackNext]_vars

\* ------------------------------------------------ AccountKeeper, the caches
NoAccount == "nil"
\* ac.cdc.MarshalBinaryBare(acc) and UnmarshalBinaryBare(bz, &acc)
encodeAccount(acc) == <<"amino", acc>>
decodeAccount(bz) == bz[2]
\* acc.(Account): the type assertion fails on a nil interface value
IsAccount(acc) == acc \in Accounts

\* accountStoreCache.GetAccount: the value returned and the LRU cache after it
storeGetAccount(addr) ==
  IF lruCache[addr] # Absent
    THEN [acc |-> lruCache[addr], lru |-> lruCache]
    ELSE IF kvStore[addr] = NoBytes
      THEN [acc |-> NoAccount, lru |-> lruCache]
      ELSE [acc |-> decodeAccount(kvStore[addr]),
            lru |-> [lruCache EXCEPT ![addr] = decodeAccount(kvStore[addr])]]

\* accountCache.setAccountToCache: stores only what is an Account
setAccountToCache(cache, addr, acc, deleted, dirty) ==
  IF IsAccount(acc)
    THEN [cache EXCEPT ![addr] = <<[acc |-> acc, deleted |-> deleted, dirty |-> dirty]>>]
    ELSE cache

\* accountCache.GetAccount: the value returned, the cache and the LRU cache
\* after it
cacheGetAccount(addr) ==
  IF acCache[addr] = NoEntry
    THEN LET r == storeGetAccount(addr) IN
           [acc |-> r.acc, lru |-> r.lru,
            cache |-> setAccountToCache(acCache, addr, r.acc, FALSE, FALSE)]
    ELSE [acc |-> acCache[addr][1].acc, lru |-> lruCache, cache |-> acCache]

\* AccountKeeper.GetAccount: the account, or nil
GetAccount(addr) ==
  LET cVal == cacheGetAccount(addr).acc IN
    IF IsAccount(cVal) THEN cVal ELSE NoAccount

\* The rest of the state, which the account calls leave alone.
asyncVars == <<procVars, items, lockVars, rwVars, chanVars, wgCommit, workerVars,
               logVars, creatorVars, cbVars>>
clientVars == <<asyncVars, ibcVars, oracleVars>>

AccountKeeper_GetAccount(addr) ==
  /\ acCache' = cacheGetAccount(addr).cache
  /\ lruCache' = cacheGetAccount(addr).lru
  /\ lastOp' = [name |-> "GetAccount", addr |-> addr, acc |-> NoAccount]
  /\ UNCHANGED <<kvStore, removed, clientVars>>

\* cache.SetAccount(addr, acc): setAccountToCache(addr, acc, false, true)
AccountKeeper_SetAccount(addr, acc) ==
  /\ acCache' = setAccountToCache(acCache, addr, acc, FALSE, TRUE)
  /\ removed' = [removed EXCEPT ![addr] = "no"]
  /\ lastOp' = [name |-> "SetAccount", addr |-> addr, acc |-> acc]
  /\ UNCHANGED <<lruCache, kvStore, clientVars>>

\* cache.Delete(addr): setAccountToCache(addr, nil, true, true), called for
\* an account the caller holds
AccountKeeper_RemoveAccount(addr) ==
  /\ GetAccount(addr) # NoAccount
  /\ acCache' = setAccountToCache(acCache, addr, NoAccount, TRUE, TRUE)
  /\ removed' = [removed EXCEPT ![addr] = "removed"]
  /\ lastOp' = [name |-> "RemoveAccount", addr |-> addr, acc |-> NoAccount]
  /\ UNCHANGED <<lruCache, kvStore, clientVars>>

\* accountCache.Write: the dirty keys, sorted
SortedKeys == <<"a1", "a2">>
IsDirty(a) == acCache[a] # NoEntry /\ acCache[a][1].dirty
DirtyKeys == SelectSeq(SortedKeys, IsDirty)
\* The loop of Write over the keys: a deleted entry goes to parent.Delete,
\* whose setAccountToCache(addr, nil) calls Clone() on a nil Account and
\* panics; an entry with an account goes to parent.SetAccount, which adds it
\* to the LRU cache and sets its encoding in the store.
RECURSIVE WriteKeys(_, _, _)
WriteKeys(keys, lru, store) ==
  IF keys = <<>> THEN [lru |-> lru, store |-> store, panic |-> FALSE]
  ELSE LET a == Head(keys)
           cacheValue == acCache[a][1]
       IN IF cacheValue.deleted
            THEN [lru |-> lru, store |-> store, panic |-> TRUE]
          ELSE IF cacheValue.acc = NoAccount
            THEN WriteKeys(Tail(keys), lru, store)
          ELSE WriteKeys(Tail(keys),
                         [lru EXCEPT ![a] = cacheValue.acc],
                         [store EXCEPT ![a] = encodeAccount(cacheValue.acc)])

\* A Write that would keep the entries it wrote.
AccountCache_Write_KeepsCache ==
  LET r == WriteKeys(DirtyKeys, lruCache, kvStore) IN
    /\ lruCache' = r.lru
    /\ kvStore' = r.store
    /\ lastOp' = [name |-> "Write", addr |-> "none", acc |-> NoAccount]
    /\ UNCHANGED <<acCache, removed, clientVars>>

\* accountCache.Write; the cache is cleared unless the loop panicked
AccountCache_Write ==
  LET r == WriteKeys(DirtyKeys, lruCache, kvStore) IN
    /\ lastOp' = [name |-> "Write", addr |-> "none", acc |-> NoAccount]
    /\ lruCache' = r.lru
    /\ kvStore' = r.store
    /\ acCache' = IF r.panic THEN acCache ELSE [a \in Addrs |-> NoEntry]
    /\ removed' = [a \in Addrs |-> IF removed[a] = "removed" THEN "written"
                                                              ELSE removed[a]]
    /\ UNCHANGED clientVars

AccountNext ==
  \/ \E a \in Addrs : AccountKeeper_GetAccount(a)
  \/ \E a \in Addrs, acc \in Accounts : AccountKeeper_SetAccount(a, acc)
  \/ \E a \in Addrs : AccountKeeper_RemoveAccount(a)
  \/ AccountCache_Write
AccountSpec == Init /\ [][AccountNext]_vars

\* -------------------------------------------------------------- IBC keeper
\* binary.BigEndian.PutUint64 and Uint64 over sequenceLength bytes
sequenceLength == 8
RECURSIVE PutUintN(_, _)
PutUintN(n, len) ==
  IF len = 0 THEN <<>> ELSE Append(PutUintN(n \div 256, len - 1), n % 256)
PutUint64(n) == PutUintN(n, sequenceLength)
RECURSIVE UintOf(_, _)
UintOf(bz, high) ==
  IF bz = <<>> THEN high ELSE UintOf(Tail(bz), high * 256 + Head(bz))
Uint64(bz) == UintOf(bz, 0)

\* GetDestChainID, GetChannelID: the id of a registered name, or an error
GetDestChainID(name) ==
  IF name \in RegisteredChains THEN [id |-> name, err |-> "nil"]
  ELSE [id |-> "none", err |-> "non-existing destChainName"]
GetChannelID(name) ==
  IF name \in RegisteredChannels THEN [id |-> name, err |-> "nil"]
  ELSE [id |-> "none", err |-> "non-existing channelName"]
\* buildIBCPackageKey (for the one source chain) and buildChannelSequenceKey
buildIBCPackageKey(destChainID, channelID, sequence) ==
  <<destChainID, channelID, sequence>>
buildChannelSequenceKey(destChainID, channelID) == <<destChainID, channelID>>

\* getSequence: 0 if nothing is stored under the channel's sequence key
getSequence(destChainID, channelID) ==
  LET bz == ibcSequences[buildChannelSequenceKey(destChainID, channelID)] IN
    IF bz = NoBytes THEN 0 ELSE Uint64(bz)

\* An incrSequence that would store the sequence it read.
incrSequence_Same(destChainID, channelID) ==
  [ibcSequences EXCEPT ![buildChannelSequenceKey(destChainID, channelID)] =
     PutUint64(getSequence(destChainID, channelID))]
\* incrSequence: the sequence store after it
incrSequence(destChainID, channelID) ==
  [ibcSequences EXCEPT ![buildChannelSequenceKey(destChainID, channelID)] =
     PutUint64(getSequence(destChainID, channelID) + 1)]

IbcResult(chain, channel, value, ok, seq, err) ==
  [chain |-> chain, channel |-> channel, value |-> value, ok |-> ok, seq |-> seq,
   err |-> err]

CreateIBCPackage(destChainName, channelName, value) ==
  /\ Len(ibcLog) < MaxIbcCalls
  /\ LET chain == GetDestChainID(destChainName)
         channel == GetChannelID(channelName)
         Fail(err) ==
           /\ ibcLog' = Append(ibcLog, IbcResult(destChainName, channelName, value,
                                                 FALSE, 0, err))
           /\ UNCHANGED <<ibcPackages, ibcSequences>>
     IN IF chain.err # "nil" THEN Fail("internal")
        ELSE IF channel.err # "nil" THEN Fail("internal")
        ELSE LET sequence == getSequence(chain.id, channel.id)
                 key == buildIBCPackageKey(chain.id, channel.id, sequence)
             IN IF ibcPackages[key] # NoBytes THEN Fail("duplicated sequence")
                ELSE /\ ibcPackages' = [ibcPackages EXCEPT ![key] = value]
                     /\ ibcSequences' = incrSequence(chain.id, channel.id)
                     /\ ibcLog' = Append(ibcLog,
                                         IbcResult(destChainName, channelName, value,
                                                   TRUE, sequence, "nil"))
  /\ UNCHANGED <<asyncVars, accountVars, oracleVars>>

\* CleanupIBCPackage: deletes the channel's packages up to confirmedSequence
CleanupIBCPackage(destChainName, channelName, confirmedSequence) ==
  /\ LET chain == GetDestChainID(destChainName)
         channel == GetChannelID(channelName)
     IN IF chain.err # "nil" \/ channel.err # "nil"
          THEN UNCHANGED ibcPackages
          ELSE ibcPackages' =
                 [k \in DOMAIN ibcPackages |->
                    IF k[1] = chain.id /\ k[2] = channel.id /\ k[3] <= confirmedSequence
                      THEN NoBytes ELSE ibcPackages[k]]
  /\ UNCHANGED <<ibcSequences, ibcLog, asyncVars, accountVars, oracleVars>>

IbcNext ==
  \/ \E c \in ChainNames, h \in ChannelNames, v \in Payloads : CreateIBCPackage(c, h, v)
  \/ \E c \in ChainNames, h \in ChannelNames, q \in IbcSeqs : CleanupIBCPackage(c, h, q)
IbcSpec == Init /\ [][IbcNext]_vars

\* ------------------------------------------------------------- the oracle
\* Keeper.claimTypeToName and claimHooksMap after the registrations
GetClaimTypeName(claimType) ==
  IF claimType \in {"bind", "transferOut", "noHooks"} THEN claimType ELSE ""
GetClaimHooks(claimType) ==
  IF claimType \in {"bind", "transferOut"} THEN "hooks" ELSE "nil"
\* The bonded validators, each of power one, and an address that is none.
Bonded == {"v1", "v2"}
ValAddresses == Bonded \cup {"vx"}
checkActiveValidator(v) == v \in Bonded
GetLastTotalPower == Cardinality(Bonded)
\* ProphecyParams.ConsensusNeeded, as numerator and denominator
ConsensusNeeded == <<7, 10>>
\* The contents of a claim; the empty one is invalid.
Contents == {"A", "B", ""}
StartSequence == 0
GetClaimId(claimType, sequence) == <<claimType, sequence>>

\* types.NewProphecy(id): pending, no claim
NewProphecy ==
  [status |-> "pending", final |-> "", claims |-> [v \in Bonded |-> ""]]
\* Keeper.GetProphecy: the prophecy stored under the id, or a new one
GetProphecy(id) == IF prophecies[id] = NoEntry THEN NewProphecy ELSE prophecies[id][1]
\* prophecy.AddClaim(validator, content)
AddClaim(prophecy, v, content) ==
  [prophecy EXCEPT !.claims = [prophecy.claims EXCEPT ![v] = content]]
\* prophecy.FindHighestClaim: the power behind each content claimed
ClaimPower(prophecy, c) == Cardinality({v \in Bonded : prophecy.claims[v] = c})
totalClaimsPower(prophecy) == Cardinality({v \in Bonded : prophecy.claims[v] # ""})
highestClaim(prophecy) ==
  CHOOSE c \in Contents \ {""} :
    \A d \in Contents \ {""} : ClaimPower(prophecy, c) >= ClaimPower(prophecy, d)
\* Keeper.processCompletion
processCompletion(prophecy) ==
  LET highestClaimPower == ClaimPower(prophecy, highestClaim(prophecy))
      totalPower == GetLastTotalPower
      remainingPossibleClaimPower == totalPower - totalClaimsPower(prophecy)
      highestPossibleClaimPower == highestClaimPower + remainingPossibleClaimPower
  IN IF highestClaimPower * ConsensusNeeded[2] >= ConsensusNeeded[1] * totalPower
       THEN [prophecy EXCEPT !.status = "success", !.final = highestClaim(prophecy)]
     ELSE IF highestPossibleClaimPower * ConsensusNeeded[2]
               < ConsensusNeeded[1] * totalPower
       THEN [prophecy EXCEPT !.status = "failed"]
     ELSE prophecy

\* Keeper.ProcessClaim: the prophecy returned, the error and the store after it
ProcessClaim(id, v, content) ==
  LET Err(e) == [prophecy |-> NewProphecy, err |-> e, store |-> prophecies] IN
    IF ~checkActiveValidator(v) THEN Err("invalid validator")
    ELSE IF content = "" THEN Err("invalid claim")
    ELSE IF GetProphecy(id).status # "pending" THEN Err("prophecy finalized")
    ELSE LET prophecy == processCompletion(AddClaim(GetProphecy(id), v, content)) IN
           [prophecy |-> prophecy, err |-> "nil",
            store |-> [prophecies EXCEPT ![id] = <<prophecy>>]]

\* Keeper.GetCurrentSequence and the store after Keeper.IncreaseSequence
GetCurrentSequence(claimType) ==
  IF claimSequences[claimType] = NoBytes THEN StartSequence
  ELSE Uint64(claimSequences[claimType])
IncreaseSequence_Twice(claimType) ==
  [claimSequences EXCEPT ![claimType] = PutUint64(GetCurrentSequence(claimType) + 2)]
IncreaseSequence(claimType) ==
  [claimSequences EXCEPT ![claimType] = PutUint64(GetCurrentSequence(claimType) + 1)]

\* handleClaimMsg; checkErr and executeErr are what the hooks' CheckClaim and
\* ExecuteClaim return for this message
handleClaimMsg(msg, checkErr, executeErr) ==
  LET Outcome(o) ==
        oracleLog' = <<[claimType |-> msg.ClaimType, sequence |-> msg.Sequence,
                        outcome |-> o]>>
      id == GetClaimId(msg.ClaimType, msg.Sequence)
      processed == ProcessClaim(id, msg.ValidatorAddress, msg.Claim)
      DeleteProphecy(store) == [store EXCEPT ![id] = NoEntry]
  IN
  /\ IF GetClaimTypeName(msg.ClaimType) = ""
       THEN Outcome("invalid claim type") /\ UNCHANGED <<claimSequences, prophecies>>
     ELSE IF GetClaimHooks(msg.ClaimType) = "nil"
       THEN Outcome("no hooks") /\ UNCHANGED <<claimSequences, prophecies>>
     ELSE IF checkErr
       THEN Outcome("check failed") /\ UNCHANGED <<claimSequences, prophecies>>
     ELSE IF msg.Sequence # GetCurrentSequence(msg.ClaimType)
       THEN Outcome("invalid sequence") /\ UNCHANGED <<claimSequences, prophecies>>
     ELSE IF processed.err # "nil"
       THEN Outcome("process error") /\ UNCHANGED <<claimSequences, prophecies>>
     ELSE IF processed.prophecy.status = "failed"
       THEN /\ Outcome("prophecy failed")
            /\ prophecies' = DeleteProphecy(processed.store)
            /\ UNCHANGED claimSequences
     ELSE IF processed.prophecy.status # "success"
       THEN /\ Outcome("prophecy pending")
            /\ prophecies' = processed.store
            /\ UNCHANGED claimSequences
     ELSE IF executeErr
       THEN /\ Outcome("execute failed")
            /\ prophecies' = processed.store
            /\ UNCHANGED claimSequences
     ELSE /\ Outcome("executed")
          /\ prophecies' = DeleteProphecy(processed.store)
          /\ claimSequences' = IncreaseSequence(msg.ClaimType)
  /\ UNCHANGED <<asyncVars, accountVars, ibcVars>>

ClaimMsgs ==
  [ClaimType : ClaimTypes, Sequence : 0..(MaxClaims - 1), Claim : Contents,
   ValidatorAddress : ValAddresses]
OracleNext ==
  \E msg \in ClaimMsgs, checkErr \in BOOLEAN, executeErr \in BOOLEAN :
    handleClaimMsg(msg, checkErr, executeErr)
OracleSpec == Init /\ [][OracleNext]_vars

\* Several clients of one creator.  NewABCIClient hands the creator's rwLock,
\* wgCommit, commitLock, checkTxLowLock and checkTxMidLock (pointers) to every
\* client; NewAsyncLocalClient makes the queues (and the pools) anew.
ClientStruct(j) ==
  [rwLock |-> "l.rwLock", wgCommit |-> "l.wgCommit", commitLock |-> "l.commitLock",
   checkTxLowLock |-> "l.checkTxLowLock", checkTxMidLock |-> "l.checkTxMidLock",
   checkTxQueue |-> <<"checkTxQueue", j>>, deliverTxQueue |-> <<"deliverTxQueue", j>>]
\* The node's mempool connection uses the first client, its consensus
\* connection the second: the check pipeline in use is the first client's,
\* the deliver pipeline the second's.
MempoolClient == 1
ConsensusClient == 2
PipeOwner(k) == IF k = "check" THEN MempoolClient ELSE ConsensusClient
Built == {j \in 1..Len(created) : created[j].client # NilClient}
ClientsInUse == {MempoolClient, ConsensusClient} \subseteq Built
ClientsNext ==
  \/ NewABCIClient_Call
  \/ ClientsInUse /\ PipelineNext(MaxTx, QueueCap)
ClientsSpec == CreatorInit /\ [][ClientsNext]_vars

\* ================================================================ claims
IsPrefix(s, t) == Len(s) <= Len(t) /\ \A j \in 1..Len(s) : s[j] = t[j]
Range(s) == {s[j] : j \in 1..Len(s)}
Admitted == Range(admitLog["check"]) \cup Range(admitLog["deliver"])
\* An item the worker has not retired yet.
Live(i) == items[i].tx # None

\* C1: in each pipeline the worker reaches the real call for the items (and
\* makes it unless pre-validation rejected the item) in the order they were
\* sent on the queue, and the global callback fires in that same order,
\* whatever the order in which the pre-validation tasks finish.
C1_FIFO ==
  \A k \in Pipes :
    /\ IsPrefix(callLog[k], admitLog[k])
    /\ IsPrefix(cbLog[k], callLog[k])

\* The pre-validation of the second item of a queue has finished, that of
\* the first has not, and the worker holds the first item without having
\* made any call.
C1_Witness ==
  \E k \in Pipes :
    /\ Len(admitLog[k]) = 2
    /\ items[admitLog[k][2]].task = "done"
    /\ items[admitLog[k][1]].task \in {"sched", "running"}
    /\ wpc[k] = "lock" /\ wcur[k] = admitLog[k][1]
    /\ callLog[k] = <<>>

\* Every admitted item is finished and the counter is zero.
BarrierPassed == wgCommit = 0 /\ \A i \in Admitted : items[i].done
InCall(ops) == \E p \in Procs : op[p] \in ops /\ pc[p] = "call"

\* C2: while the application's Commit runs for CommitAsync or CommitSync, the
\* in-flight counter is zero and every admitted item has been finished by its
\* worker.
C2_CommitBarrier == InCall({"CommitAsync", "CommitSync"}) => BarrierPassed

\* C3: while the application's EndBlock runs for EndBlockAsync or
\* EndBlockSync, the in-flight counter is zero and every admitted item has
\* been finished by its worker.
C3_EndBlockBarrier == InCall({"EndBlockAsync", "EndBlockSync"}) => BarrierPassed

\* EndBlock runs after items of both pipelines were admitted and finished.
C3_Witness ==
  /\ InCall({"EndBlockAsync", "EndBlockSync"})
  /\ \A k \in Pipes : cbLog[k] # <<>>

\* C4: an item whose pre-validation was not OK gets no real call and both
\* callbacks receive the pre-validation's result; an item whose pre-validation
\* was OK gets the real call exactly once before any callback, and both
\* callbacks receive the real call's result; no item is called or delivered
\* before its pre-validation returned, and none is delivered twice.
Delivered(i) == Range(items[i].cb) \cup Range(items[i].reqCb)
C4_ShortCircuit ==
  \A i \in Ids : Live(i) =>
    LET it == items[i] IN
      /\ Len(it.cb) <= 1 /\ Len(it.reqCb) <= 1 /\ it.calls <= 1
      /\ it.pre = Nil => it.calls = 0 /\ Delivered(i) = {}
      /\ (it.pre # Nil /\ ~IsOK(it.pre)) =>
           /\ it.calls = 0
           /\ Delivered(i) \subseteq {ToResponse(it.kind, it.pre)}
      /\ (it.pre # Nil /\ IsOK(it.pre)) =>
           /\ Delivered(i) # {} => it.calls = 1 /\ it.real # Nil
           /\ Delivered(i) \subseteq {ToResponse(it.kind, it.real)}

\* The global and the per-request callback of an item that its
\* pre-validation rejected have been invoked.
C4_Witness ==
  \E i \in Ids :
    /\ Live(i)
    /\ items[i].pre # Nil /\ ~IsOK(items[i].pre)
    /\ items[i].cb # <<>> /\ items[i].reqCb # <<>>

\* The callers inside the application: in write mode, in read mode, and the
\* pool tasks inside PreCheckTx/PreDeliverTx.
WriteInApp ==
  {p \in Procs : pc[p] = "call" /\ op[p] \in CommitClassOps \cup DirectWriteOps}
    \cup {Worker(k) : k \in {j \in Pipes : wpc[j] = "call"}}
ReadInApp == {p \in Procs : pc[p] = "call" /\ op[p] \in ReadOps}
PreInApp == {i \in Ids : items[i].task = "running"}

\* C5: at most one write-mode call (a worker's CheckTx or DeliverTx, Commit,
\* EndBlock, BeginBlock, InitChain, SetOption, ReCheckTx, CheckTxSync,
\* DeliverTxSync) is inside the application.
C5_WriteExclusive == Cardinality(WriteInApp) <= 1

\* checkTxWorker is inside CheckTx while deliverTxWorker, whose item is ready,
\* and a direct write-mode caller could otherwise enter.
C5_Witness ==
  /\ wpc["check"] = "call"
  /\ wpc["deliver"] = "lock" /\ GateOpen(wcur["deliver"])
  /\ \E p \in Procs : pc[p] = "idle" /\ WriteOpsOf(p) # {}

\* C6: no read-mode call (Info, Query) is inside the application together
\* with a write-mode call.
C6_ReadersExcludeWriters == ReadInApp # {} => WriteInApp = {}

\* Info and Query are inside the application at the same time, while a
\* worker's item is ready and the worker waits for the lock.
C6_Witness ==
  /\ Cardinality(ReadInApp) = 2
  /\ \E k \in Pipes : wpc[k] = "lock" /\ GateOpen(wcur[k])

\* The lock a caller holds: a direct or commit-class caller in its mode, a
\* worker in write mode; a pool task takes none.
HoldsLock(x) == rwWriter = x \/ x \in rwReaders
PoolTask(i) == "poolTask"
LockedCallers ==
  /\ \A p \in WriteInApp : rwWriter = p
  /\ \A p \in ReadInApp : p \in rwReaders

\* C7 as claimed: every call into the application, PreCheckTx and
\* PreDeliverTx on the pool included, is made while its caller holds rwLock.
C7_AllCallsLocked ==
  /\ LockedCallers
  /\ \A i \in PreInApp : HoldsLock(PoolTask(i))

\* C7 as amended: every call into the application other than the
\* pre-validation calls is made while its caller holds rwLock, in write mode
\* for the write-mode calls and in read mode for Info and Query.
C7_CallsLockedButPreValidation == LockedCallers

\* A pool task is inside the pre-validation, holding nothing, while a
\* write-mode caller is inside the application holding the lock.
C7_Witness == PreInApp # {} /\ WriteInApp # {}

\* A commit-class call holds commitLock: from its Lock to its deferred Unlock.
CommitHoldsMutex ==
  \E p \in Procs :
    /\ op[p] \in CommitClassOps
    /\ pc[p] \in {"midU", "wait", "rw", "call", "cb", "commitU"}

\* C8: while a commit-class call holds commitLock, no step of a CheckTxAsync
\* sends on checkTxQueue or adds to the in-flight counter.
C8_NoAdmissionDuringCommit ==
  [][CommitHoldsMutex =>
       /\ queue'["check"] = queue["check"] \/ Len(queue'["check"]) < Len(queue["check"])
       /\ admitLog'["check"] = admitLog["check"]
       /\ ~ \E p \in Mempool : CheckTxAsync_Add(p)]_vars

\* A commit-class call waits for the counter while a CheckTxAsync waits for
\* commitLock.
C8_Witness ==
  /\ \E p \in Procs : op[p] \in CommitClassOps /\ pc[p] = "wait" /\ wgCommit > 0
  /\ \E p \in Mempool : op[p] = "CheckTxAsync" /\ pc[p] = "commit"

\* C9 as claimed: no request that began after a commit-class call started
\* waiting is observed by the application (CheckTx, DeliverTx) before that
\* call's own application call, whether it came through CheckTxAsync,
\* DeliverTxAsync, CheckTxSync or DeliverTxSync.
LateItemsUnseen ==
  \A i \in Ids : items[i].late =>
    items[i].calls = 0 /\ \A k \in Pipes : i \notin Range(callLog[k])
C9_NoLateCall ==
  /\ LateItemsUnseen
  /\ \A p \in Procs : late[p] => ~(op[p] \in TxSyncOps /\ pc[p] = "call")

\* C9 as amended: no request submitted through CheckTxAsync after a
\* commit-class call started waiting reaches the worker's real call before
\* that call's own application call.
C9_NoLateAsyncCall == LateItemsUnseen

\* A CheckTxAsync that began during a commit-class call's wait is held back.
C9_Witness ==
  /\ CommitPending
  /\ \E p \in Mempool :
       /\ op[p] = "CheckTxAsync" /\ pc[p] = "commit"
       /\ items[cur[p]].late

\* The call of p is at its send on the queue with item i.
AtEnqueue(i) == \E p \in Procs : pc[p] = "enq" /\ cur[p] = i
\* The worker went through every step for item i.
Processed(i) == i \in Ids /\ ~Live(i)
NoRepeat(s) == \A a, b \in 1..Len(s) : s[a] = s[b] => a = b

\* C10: a queue never holds more than its capacity (a send on a full queue
\* waits), no send fails, every request whose submission reached the send is
\* in the end processed by the ordered worker, and none is processed twice.
C10_Backpressure ==
  /\ [](\A k \in Pipes : Len(queue[k]) <= SmallQueueCap)
  /\ [](\A p \in Procs : pc[p] # "panic")
  /\ [](\A k \in Pipes : NoRepeat(callLog[k]) /\ NoRepeat(cbLog[k]))
  /\ \A i \in 1..MaxTx : AtEnqueue(i) ~> Processed(i)

\* A submission waits at its send because the queue holds its capacity.
C10_Witness ==
  \E p \in Procs :
    /\ pc[p] = "enq"
    /\ Len(queue[items[cur[p]].kind]) = SmallQueueCap

\* Nothing is pending: no call of a submitter or of the consensus driver is
\* in progress and the workers are through with every item ever created.
Quiescent ==
  /\ \A p \in Mempool \cup Consensus : pc[p] = "idle"
  /\ \A i \in Ids : Processed(i)
  /\ \A k \in Pipes : queue[k] = <<>> /\ wpc[k] = "recv"

\* C11: the protocol does not deadlock.  From every reachable state the
\* client comes to rest again: every item that was sent on a queue is
\* finished by its worker and every call that was issued, a CheckTxAsync
\* blocked on a full queue and a commit-class call waiting for a mutex or for
\* the counter included, has returned; a commit-class call returns only
\* through its application call.
C11_NoDeadlock ==
  /\ []<>Quiescent
  /\ [][\A p \in Consensus :
         (op[p] \in CommitClassOps /\ pc'[p] \in {"cb", "commitU"} /\ pc'[p] # pc[p])
           => pc[p] \in {"call", "cb"}]_vars

\* A CheckTxAsync waits at its send on the full queue, holding checkTxLowLock
\* and commitLock, while a commit-class call holds checkTxMidLock and waits
\* for commitLock.
C11_Witness ==
  /\ \E p \in Mempool :
       /\ op[p] = "CheckTxAsync" /\ pc[p] = "enq"
       /\ commitLock = p /\ checkTxLowLock = p
       /\ Len(queue["check"]) = SmallQueueCap
  /\ \E p \in Consensus : op[p] \in CommitClassOps /\ pc[p] = "commit"

\* C12: a commit-class call that has begun is not starved by a stream of
\* CheckTxAsync submissions that never ends: it comes to hold checkTxMidLock
\* and commitLock.
C12_CommitNotStarved ==
  \A p \in Consensus :
    (op[p] \in CommitClassOps /\ pc[p] = "begin")
      ~> (checkTxMidLock = p /\ commitLock = p)

\* A commit-class call has begun and waits for checkTxMidLock, which a
\* CheckTxAsync holds, while the other submitter is idle and can begin anew.
C12_Witness ==
  /\ \E p \in Consensus : op[p] \in CommitClassOps /\ pc[p] = "begin"
  /\ checkTxMidLock \in Mempool
  /\ \E p \in Mempool : pc[p] = "idle"

\* The commit-class calls that wait for the counter before their
\* application call.
WaitingOps == {o \in CommitClassOps : WaitsForCounter(o)}

\* C13: while the application's Commit or EndBlock runs for a call that
\* waited for the counter, the workers are through with every item sent on a
\* queue: its response is set, it is marked done and its callbacks were
\* invoked; no worker is still between its decrement and its callbacks.
C13_CallbacksBeforeCommit ==
  InCall(WaitingOps) =>
    /\ \A k \in Pipes : cbLog[k] = admitLog[k] /\ wpc[k] = "recv" /\ wcur[k] = 0
    /\ \A i \in Admitted : items[i].done /\ items[i].resp # Nil /\ ~Live(i)

\* The counter reached zero and the commit-class call has returned from its
\* wait, while the worker that made the last decrement has not yet invoked
\* the callbacks of its item.
C13_Witness ==
  /\ \E p \in Procs : op[p] \in WaitingOps /\ pc[p] = "rw"
  /\ wgCommit = 0
  /\ \E k \in Pipes : wpc[k] = "cb" /\ items[wcur[k]].done /\ items[wcur[k]].cb = <<>>

\* The items whose increment of the counter has happened, and those whose
\* decrement has.
Incremented ==
  {i \in Admitted : ~ \E p \in Procs : cur[p] = i /\ pc[p] = "add"}
Decremented == {i \in Ids : items[i].done}

\* C14: every item a worker took from its queue decrements the counter
\* exactly once, whether its pre-validation rejected it, its real call failed
\* or it succeeded: the counter is the number of items incremented and not
\* yet decremented, only incremented items are decremented, and once every
\* item is decremented a waiting commit-class call can go on.
C14_DecrementOnce ==
  /\ Decremented \subseteq Incremented
  /\ wgCommit = Cardinality(Incremented \ Decremented)
  /\ (Incremented = Admitted /\ Decremented = Admitted) => WaitReturns

\* A commit-class call waits, and the worker has just made the decrement for
\* an item whose real call failed, the second item of its queue.
C14_Witness ==
  /\ \E p \in Procs : op[p] \in WaitingOps /\ pc[p] = "wait"
  /\ wgCommit = 0
  /\ \E k \in Pipes :
       /\ wpc[k] = "cb"
       /\ items[wcur[k]].real # Nil /\ ~IsOK(items[wcur[k]].real)
       /\ Len(callLog[k]) = 2

\* A CheckTxAsync is inside its admission: it holds commitLock.
InAdmission(p) ==
  op[p] = "CheckTxAsync" /\ pc[p] \in {"midU", "enq", "add", "commitU"}

\* C15: OnStop closes the queues only while it holds commitLock, hence never
\* while a CheckTxAsync is inside its admission; a worker leaves its loop only
\* when its queue is closed and empty and it has processed, callbacks
\* included, every item that was sent on the queue; and once a queue is
\* closed its worker does leave the loop (both queues, both workers).
C15_ShutdownDrains ==
  /\ [][closed' # closed =>
          /\ commitLock \in Stopper /\ commitLock' = commitLock
          /\ \A p \in Mempool : ~InAdmission(p)]_vars
  /\ [](\A k \in Pipes : wpc[k] = "exit" =>
          /\ closed[k] /\ queue[k] = <<>>
          /\ callLog[k] = admitLog[k] /\ cbLog[k] = admitLog[k])
  /\ (\A k \in Pipes : closed[k]) ~> (\A k \in Pipes : wpc[k] = "exit")

\* A queue was closed with an item in it, while its worker holds an earlier
\* item whose pre-validation has not finished.
C15_Witness ==
  \E k \in Pipes :
    /\ closed[k] /\ queue[k] # <<>>
    /\ wpc[k] = "lock" /\ ~GateOpen(wcur[k])

\* The coordination locks p holds.
HeldBy(p) ==
  {m \in {"commitLock", "checkTxLowLock", "checkTxMidLock"} :
     \/ m = "commitLock" /\ commitLock = p
     \/ m = "checkTxLowLock" /\ checkTxLowLock = p
     \/ m = "checkTxMidLock" /\ checkTxMidLock = p}

\* C16: a CheckTxAsync or DeliverTxAsync whose send finds the queue closed
\* has sent nothing, has not changed the counter, and holds none of
\* commitLock, checkTxLowLock and checkTxMidLock when it ends.
C16_RejectedCleanly ==
  \A p \in Procs : pc[p] = "panic" =>
    /\ cur[p] \notin Admitted
    /\ cur[p] \notin Incremented
    /\ HeldBy(p) = {}

\* C17: when the wrapped application does not implement ApplicationCC, no
\* call of NewABCIClient returns a nil error.
C17_ConstructionFails ==
  \A j \in 1..Len(created) :
    ~ImplementsCC(creatorApp) => created[j].err # NilError

\* A CommitAsync or EndBlockAsync is at the given position.
AsyncCommitAt(p, l) ==
  op[p] \in CommitClassOps \cap AsyncOps /\ pc[p] = l

\* C18 as claimed: CommitAsync and EndBlockAsync deliver their response
\* through the global callback only after they released rwLock and
\* commitLock.
C18_CallbackAfterRelease ==
  \A p \in Procs : AsyncCommitAt(p, "cb") => rwWriter # p /\ commitLock # p

\* C18 as amended: CommitAsync and EndBlockAsync deliver their response
\* through the global callback while they still hold rwLock and commitLock;
\* after the callback they release rwLock and then commitLock.
C18_CallbackUnderLocks ==
  \A p \in Procs :
    /\ AsyncCommitAt(p, "call") => rwWriter = p /\ commitLock = p
    /\ AsyncCommitAt(p, "cb") => rwWriter = p /\ commitLock = p
    /\ AsyncCommitAt(p, "commitU") => rwWriter # p /\ commitLock = p

\* The callback of a CommitAsync or EndBlockAsync has returned and rwLock is
\* released, commitLock not yet.
C18_Witness ==
  \E p \in Procs : AsyncCommitAt(p, "commitU") /\ rwWriter = None /\ commitLock = p

\* The sequential reference: for a request, run the pre-validation; make the
\* real call only if it was OK and answer with the real call's result,
\* otherwise answer with the pre-validation's result.
RefMakesCall(k, tx) == IsOK(PreValidate(k, tx))
RefResponse(k, tx, real) ==
  IF RefMakesCall(k, tx) THEN ToResponse(k, real) ELSE ToResponse(k, PreValidate(k, tx))

\* C19: in each pipeline, whatever the order in which the pre-validation
\* tasks finish, the j-th item the worker handles is the j-th item sent, the
\* worker makes the real call for it exactly when the sequential reference
\* does, and the j-th response delivered is the reference's response for the
\* j-th item sent.
C19_SequentialReference ==
  [][\A k \in Pipes :
       /\ Len(callLog'[k]) = Len(callLog[k]) + 1 =>
            LET j == Len(callLog'[k])
                i == callLog'[k][j]
            IN /\ i = admitLog[k][j]
               /\ items'[i].calls = (IF RefMakesCall(k, items[i].tx) THEN 1 ELSE 0)
       /\ Len(cbLog'[k]) = Len(cbLog[k]) + 1 =>
            LET j == Len(cbLog'[k])
                i == cbLog'[k][j]
            IN /\ i = admitLog[k][j]
               /\ items'[i].cb = <<RefResponse(k, items[i].tx, items[i].real)>>]_vars

\* The worker has delivered the response of the first item of its queue,
\* which the real call produced, while the pre-validation of the second item
\* has already finished and rejected it.
C19_Witness ==
  \E k \in Pipes :
    /\ Len(admitLog[k]) = 2 /\ cbLog[k] = <<admitLog[k][1]>>
    /\ wpc[k] = "unlock" /\ items[wcur[k]].calls = 1
    /\ items[admitLog[k][2]].task = "done"
    /\ items[admitLog[k][2]].resp # Nil

\* Both pipelines are idle: no submission is in progress, the queues are
\* empty, no pool task is pending and the workers hold nothing.
PipelinesIdle ==
  /\ \A p \in Procs : op[p] \notin {"CheckTxAsync", "DeliverTxAsync"}
  /\ \A k \in Pipes : queue[k] = <<>> /\ wcur[k] = 0
  /\ \A i \in Ids : items[i].task = "done"

\* C20: the counter is never negative; a worker that has passed the gate of
\* an item (and so is at or before its decrement for it) finds the item's
\* increment done, for CheckTxAsync and for DeliverTxAsync alike; and when
\* both pipelines are idle the counter is zero.
C20_CounterNonNegative ==
  /\ wgCommit >= 0
  /\ \A k \in Pipes :
       wpc[k] \in {"call", "done"} => wcur[k] \in Incremented /\ wgCommit >= 1
  /\ PipelinesIdle => wgCommit = 0

\* deliverTxWorker already holds the item that DeliverTxAsync has sent but
\* not yet counted: it waits for the item's gate while the counter is zero.
C20_Witness ==
  \E p \in Consensus :
    /\ op[p] = "DeliverTxAsync" /\ pc[p] = "add"
    /\ wpc["deliver"] = "lock" /\ wcur["deliver"] = cur[p]
    /\ wgCommit = 0

\* The CheckTxAsync calls inside their admission.
Admitting == {p \in Mempool : InAdmission(p)}

\* C21: at most one CheckTxAsync at a time is between its commitLock.Lock()
\* and its commitLock.Unlock(), it is the holder of commitLock, and no
\* commit-class call holds commitLock meanwhile; between its send and its
\* increment no other CheckTxAsync sends or increments and no commit-class
\* call passes its wait or enters the application.
C21_AdmissionNotInterleaved ==
  /\ [](Cardinality(Admitting) <= 1)
  /\ [](\A p \in Admitting : commitLock = p /\ ~CommitHoldsMutex)
  /\ [][\A p \in Mempool :
          (op[p] = "CheckTxAsync" /\ pc[p] = "add") =>
            /\ admitLog'["check"] = admitLog["check"]
            /\ \A q \in Mempool \ {p} : ~CheckTxAsync_Add(q)
            /\ \A q \in Consensus : ~CommitClass_Wait(q) /\ ~CommitClass_Call(q)]_vars

\* A CheckTxAsync has sent its item and not yet incremented the counter,
\* while a commit-class call holds checkTxMidLock and waits for commitLock
\* and the other submitter has finished an earlier admission.
C21_Witness ==
  /\ \E p \in Mempool : op[p] = "CheckTxAsync" /\ pc[p] = "add"
  /\ \E q \in Consensus : op[q] \in CommitClassOps /\ pc[q] = "commit"
  /\ Len(admitLog["check"]) = 2

\* C22 as claimed: a worker holds rwLock for an item, and is inside or past
\* the real call for it, only after the item's pre-validation task has
\* returned; an item is created with its gate held, the gate is open exactly
\* when the task has returned (whatever its result), and it changes only
\* once, from held to open, in the step in which the task returns.
WorkerAfterTask ==
  \A k \in Pipes :
    (wpc[k] \in {"gateU", "rw", "call", "done", "cb", "unlock"} \/ rwWriter = Worker(k)) =>
      items[wcur[k]].task = "done" /\ items[wcur[k]].pre # Nil
C22_GateOrdersWorker ==
  /\ []WorkerAfterTask
  /\ [](\A i \in Ids : Live(i) => (items[i].gate = "open") = (items[i].task = "done"))
  /\ [][/\ \A i \in Ids :
             items'[i].gate # items[i].gate =>
               /\ items[i].gate = "held" /\ items'[i].gate = "open"
               /\ PreTask_Finish(i)
        /\ \A i \in (1..Len(items')) \ Ids : items'[i].gate = "held"]_vars

\* C22 as amended: the same, except that the gate is released twice: the
\* submitter's hold, taken at creation, is released exactly once and only by
\* the pre-validation task, on success and on failure alike; after that the
\* item's worker, and nobody else, takes the gate and releases it again
\* before it asks for rwLock.
C22_GateReleasedByTaskThenWorker ==
  /\ []WorkerAfterTask
  /\ [](\A i \in Ids : Live(i) => (items[i].gate = "held") = (items[i].task # "done"))
  /\ [][/\ \A i \in Ids :
             items'[i].gate # items[i].gate =>
               \/ /\ items[i].gate = "held" /\ items'[i].gate = "open"
                  /\ PreTask_Finish(i)
               \/ /\ items[i].gate = "open" /\ items'[i].gate = Worker(items[i].kind)
                  /\ wcur[items[i].kind] = i /\ Worker_GateLock(items[i].kind)
               \/ /\ items[i].gate = Worker(items[i].kind) /\ items'[i].gate = "open"
                  /\ wcur[items[i].kind] = i /\ Worker_GateUnlock(items[i].kind)
        /\ \A i \in (1..Len(items')) \ Ids : items'[i].gate = "held"]_vars

\* The worker has taken the gate of the first item of its queue, after the
\* item's pre-validation task rejected the request and released the
\* submitter's hold; the pre-validation of the second item has returned too.
C22_Witness ==
  \E k \in Pipes :
    /\ wpc[k] = "gateU" /\ items[wcur[k]].gate = Worker(k)
    /\ items[wcur[k]].task = "done" /\ ~IsOK(items[wcur[k]].pre)
    /\ queue[k] # <<>> /\ GateOpen(Head(queue[k]))

\* C23: for the item a worker holds, the response is set when the item is
\* marked done; a callback is invoked only after that, at most once, with
\* the item's response, and only while the worker holds rwLock in write mode;
\* the global callback is not invoked before the per-request callback; and
\* when the worker releases the lock the item is done and its global
\* callback was invoked exactly once.
C23_WorkerStepOrder ==
  /\ [](\A i \in Ids : Live(i) =>
          /\ items[i].done => items[i].resp # Nil
          /\ Delivered(i) # {} =>
               /\ items[i].done /\ Delivered(i) = {items[i].resp}
               /\ wcur[items[i].kind] = i /\ rwWriter = Worker(items[i].kind)
          /\ Len(items[i].reqCb) <= 1 /\ Len(items[i].cb) <= 1)
  /\ [](\A k \in Pipes : wpc[k] = "gcb" => items[wcur[k]].cb = <<>>)
  /\ [][\A k \in Pipes :
          /\ (wcur[k] # 0 /\ Len(items'[wcur[k]].reqCb) > Len(items[wcur[k]].reqCb)) =>
               items[wcur[k]].cb = <<>>
          /\ (rwWriter = Worker(k) /\ rwWriter' # Worker(k)) =>
               items[wcur[k]].done /\ Len(items[wcur[k]].cb) = 1]_vars

\* The per-request callback of the worker's item has been invoked with the
\* item's response, the global callback not yet.
C23_Witness ==
  \E k \in Pipes :
    /\ wpc[k] = "gcb"
    /\ items[wcur[k]].reqCb = <<items[wcur[k]].resp>>
    /\ items[wcur[k]].cb = <<>>

SharedFields == {"rwLock", "wgCommit", "commitLock", "checkTxLowLock", "checkTxMidLock"}
OwnFields == {"checkTxQueue", "deliverTxQueue"}

\* C24: any two clients of one creator have the same rwLock, wgCommit,
\* commitLock, checkTxLowLock and checkTxMidLock and different queues; while
\* a commit-class call of the consensus connection's client is inside the
\* application, every item admitted through the mempool connection's client
\* is finished; and at most one write-mode call, of whichever client, is
\* inside the application.
C24_ClientsShareBarrier ==
  /\ \A i, j \in Built : i # j =>
       /\ \A f \in SharedFields : ClientStruct(i)[f] = ClientStruct(j)[f]
       /\ \A f \in OwnFields : ClientStruct(i)[f] # ClientStruct(j)[f]
  /\ InCall(CommitClassOps) =>
       \A k \in Pipes : PipeOwner(k) # ConsensusClient =>
         \A i \in Range(admitLog[k]) : items[i].done
  /\ Cardinality(WriteInApp) <= 1

DirectOps == DirectWriteOps \cup ReadOps
\* The step is one of a direct call of p: its entry, its return from the
\* application or the end of its callback.
DirectStep(p) ==
  /\ pc'[p] # pc[p]
  /\ op[p] \in DirectOps \/ op'[p] \in DirectOps
Unprocessed(i) == Live(i) /\ i \in Admitted /\ ~items[i].done

\* C25: a step of a direct call (Info, Query, SetOption, InitChain,
\* BeginBlock, ReCheckTxAsync, CheckTxSync, DeliverTxSync) changes neither
\* queue, nor the in-flight counter, nor any item (so it runs no
\* pre-validation), nor the admission, arbitration or commit mutex; the caller
\* holds none of these three and is never a pool task's submitter; the only
\* lock it holds while inside the application is the exclusivity lock.
C25_DirectCallsBypassPipeline ==
  /\ [][\A p \in Procs : DirectStep(p) =>
          /\ queue' = queue /\ closed' = closed
          /\ wgCommit' = wgCommit
          /\ items' = items /\ admitLog' = admitLog /\ callLog' = callLog
          /\ lockVars' = lockVars
          /\ cur'[p] = cur[p]]_vars
  /\ [](\A p \in Procs : op[p] \in DirectOps =>
          /\ commitLock # p /\ checkTxMidLock # p /\ checkTxLowLock # p
          /\ cur[p] = 0
          /\ pc[p] = "call" => IF op[p] \in ReadOps THEN p \in rwReaders
                                                     ELSE rwWriter = p)
\* A direct call in write mode is inside the application while an admitted
\* item waits in its queue, unprocessed.
C25_Witness ==
  \E i \in Ids :
    /\ Unprocessed(i) /\ items[i].calls = 0
    /\ i \in Range(queue[items[i].kind])
    /\ \E p \in Procs : op[p] \in DirectWriteOps /\ pc[p] = "call"

\* The application calls of the validate-class pipeline now executing:
\* PreCheckTx on the pool, CheckTx in checkTxWorker.
PreCheckRunning == {i \in PreInApp : items[i].kind = "check"}
WorkerCheckRunning == wpc["check"] = "call"

\* C26 as claimed: while the application's ReCheckTx runs, neither a
\* PreCheckTx on the pool nor checkTxWorker's CheckTx runs.
C26_ReCheckFullySerialized ==
  InCall({"ReCheckTxAsync"}) => PreCheckRunning = {} /\ ~WorkerCheckRunning

\* C26 as amended: while the application's ReCheckTx runs its caller holds
\* rwLock in write mode and no write-mode or read-mode call runs beside it,
\* checkTxWorker's CheckTx in particular; a PreCheckTx on the pool may.
C26_ReCheckExcludesLockedCalls ==
  \A p \in Procs : (op[p] = "ReCheckTxAsync" /\ pc[p] \in {"call", "cb"}) =>
    /\ rwWriter = p /\ rwReaders = {}
    /\ ~WorkerCheckRunning
    /\ WriteInApp \subseteq {p} /\ ReadInApp = {}

\* ReCheckTx and a PreCheckTx of a freshly admitted item run together, while
\* checkTxWorker waits for the lock with an item that is ready.
C26_Witness ==
  /\ InCall({"ReCheckTxAsync"})
  /\ PreCheckRunning # {}
  /\ wpc["check"] = "lock" /\ GateOpen(wcur["check"])

\* An ordered worker is inside its critical section: from its application
\* call (or the skip of it) to the delivery of its callbacks.
WorkerInCritical(k) == wpc[k] \in {"call", "done", "cb", "gcb", "unlock"}
\* A commit-class or a write-mode direct call is inside the application or
\* delivers its response.
Delivering(p) ==
  op[p] \in CommitClassOps \cup DirectWriteOps /\ pc[p] \in {"call", "cb"}

\* C27: the global callback changes only in a step of SetResponseCallback
\* whose caller holds rwLock in write mode, with no reader; in that step no
\* ordered worker is inside its critical section and no commit-class or
\* write-mode direct call is inside the application or delivering its
\* response.
C27_CallbackSetUnderLock ==
  [][Callback' # Callback =>
       /\ \E p \in Procs : op[p] = "SetResponseCallback" /\ rwWriter = p
       /\ rwReaders = {}
       /\ \A k \in Pipes : ~WorkerInCritical(k)
       /\ \A p \in Procs : ~Delivering(p)]_vars
\* SetResponseCallback holds the lock, about to replace the callback by
\* another one, while a worker with a ready item waits for the lock.
C27_Witness ==
  /\ \E p \in Procs : op[p] = "SetResponseCallback" /\ pc[p] = "rwU"
  /\ Callback = "cb1"
  /\ \E k \in Pipes : wpc[k] = "lock" /\ GateOpen(wcur[k])

\* The commit-class calls that hold checkTxMidLock and have not yet acquired
\* commitLock.
MidHeldByCommit == {p \in Procs : op[p] \in CommitClassOps /\ pc[p] = "commit"}
\* The submitters that passed commitLock.Lock() and have not yet sent.
CanStillEnqueue ==
  {p \in Mempool : op[p] = "CheckTxAsync" /\ pc[p] \in {"midU", "enq"}}

\* C28: while a commit-class call holds checkTxMidLock and waits for
\* commitLock, at most one CheckTxAsync can still send on the queue, and it
\* holds commitLock; no other CheckTxAsync acquires commitLock or joins those
\* that can still send; and a send in that interval is the one of that holder,
\* after which none can send.
C28_BoundedBypass ==
  /\ [](\A d \in MidHeldByCommit :
          /\ checkTxMidLock = d
          /\ Cardinality(CanStillEnqueue) <= 1
          /\ \A p \in CanStillEnqueue : commitLock = p)
  /\ [][(MidHeldByCommit # {} /\ MidHeldByCommit' # {}) =>
          /\ CanStillEnqueue' \subseteq CanStillEnqueue
          /\ commitLock' \in {commitLock, None}
          /\ admitLog'["check"] # admitLog["check"] =>
               /\ Len(admitLog'["check"]) = Len(admitLog["check"]) + 1
               /\ \E p \in CanStillEnqueue : cur[p] = admitLog'["check"][Len(admitLog'["check"])]
               /\ CanStillEnqueue' = {}]_vars
\* A commit-class call holds checkTxMidLock and waits for commitLock while the
\* submitter that holds commitLock has released checkTxMidLock and is about to
\* send: the one admission that bypasses the commit-class call.
C28_Witness ==
  /\ MidHeldByCommit # {}
  /\ \E p \in Mempool : op[p] = "CheckTxAsync" /\ pc[p] = "enq" /\ commitLock = p
  /\ admitLog["check"] = <<>>

\* The validate-class items not yet retired, and those whose PreCheckTx task
\* is scheduled on the pool and has not returned.
CheckItems == {i \in Ids : Live(i) /\ items[i].kind = "check"}
PreCheckPending == {i \in CheckItems : items[i].task \in {"sched", "running"}}

\* C29: while the application's Commit or EndBlock runs for CommitAsync,
\* EndBlockAsync or EndBlockSync, no PreCheckTx task is scheduled or running
\* and the pre-validation of every admitted validate-class item has
\* completed; an incremented validate-class item whose pre-validation has not
\* completed keeps the counter above zero; and during that call no step
\* admits a validate-class item or schedules a PreCheckTx task.
C29_NoPreCheckDuringCommit ==
  /\ [](InCall(WaitingOps) =>
          /\ PreCheckPending = {}
          /\ \A i \in CheckItems \cap Admitted : items[i].task = "done")
  /\ [](\A i \in CheckItems \cap Incremented : items[i].task # "done" => wgCommit > 0)
  /\ [][InCall(WaitingOps) =>
          /\ admitLog'["check"] = admitLog["check"]
          /\ PreCheckPending' = {}]_vars
\* The application's Commit or EndBlock runs after a validate-class item was
\* admitted and processed, while a submitter with a new item holds
\* checkTxMidLock and waits for commitLock.
C29_Witness ==
  /\ InCall(WaitingOps)
  /\ \E i \in Admitted : items[i].kind = "check" /\ Processed(i)
  /\ \E p \in Mempool : op[p] = "CheckTxAsync" /\ pc[p] = "commit" /\ checkTxMidLock = p

\* C30: after RemoveAccount on an address that holds an account, and until a
\* later SetAccount, GetAccount returns nil for it; and once Write ran, the
\* parent store cache has it neither in its store nor in its LRU cache.
C30_RemoveRemoves ==
  \A a \in Addrs :
    /\ removed[a] # "no" => GetAccount(a) = NoAccount
    /\ removed[a] = "written" => kvStore[a] = NoBytes /\ lruCache[a] = Absent

\* What Write is to do with the entry of address a: set the parent's copy
\* for a dirty entry, delete it for one marked deleted, nothing otherwise.
WrittenBack(a) ==
  IF ~IsDirty(a) THEN /\ kvStore'[a] = kvStore[a]
                      /\ lruCache'[a] = lruCache[a]
  ELSE IF acCache[a][1].deleted THEN /\ kvStore'[a] = NoBytes
                                     /\ lruCache'[a] = Absent
  ELSE /\ decodeAccount(kvStore'[a]) = acCache[a][1].acc
       /\ lruCache'[a] = acCache[a][1].acc
EmptyCache == \A a \in Addrs : acCache[a] = NoEntry

\* C31: a step of SetAccount(addr, acc) leaves the parent (its store and its
\* LRU cache) as it was, and GetAccount(addr) returns acc after it; a step of
\* Write sets in the parent the account of every dirty entry, deletes there
\* every entry marked deleted, leaves every other address of the parent as it
\* was and empties the cache; and right after a Write the cache is empty and
\* a further Write would change neither the parent nor the cache.
C31_WriteBack ==
  /\ [][lastOp'.name = "SetAccount" =>
          /\ kvStore' = kvStore /\ lruCache' = lruCache
          /\ \A a \in Addrs : lastOp'.addr = a => GetAccount(a)' = lastOp'.acc]_vars
  /\ [][lastOp'.name = "Write" =>
          /\ \A a \in Addrs : WrittenBack(a)
          /\ EmptyCache']_vars
  /\ [](lastOp.name = "Write" =>
          /\ EmptyCache
          /\ WriteKeys(DirtyKeys, lruCache, kvStore) =
               [lru |-> lruCache, store |-> kvStore, panic |-> FALSE])
\* SetAccount has just replaced, in the cache only, an account that an earlier
\* Write put in the parent, while the cache also holds an entry that was only
\* read: the Write that follows has one entry to write and one to skip.
C31_Witness ==
  /\ lastOp = [name |-> "SetAccount", addr |-> "a1", acc |-> "acc2"]
  /\ GetAccount("a1") = "acc2"
  /\ kvStore["a1"] = encodeAccount("acc1")
  /\ acCache["a2"] = <<[acc |-> "acc1", deleted |-> FALSE, dirty |-> FALSE]>>

IbcChannels == RegisteredChains \X RegisteredChannels
\* The sequences the successful calls on a channel returned, in order.
Returned(c) ==
  LET ok(e) == e.ok /\ e.chain = c[1] /\ e.channel = c[2]
      calls == SelectSeq(ibcLog, ok)
  IN [j \in 1..Len(calls) |-> calls[j].seq]
Known(e) == e.chain \in RegisteredChains /\ e.channel \in RegisteredChannels

\* C32: for each registered (chain, channel) the successful CreateIBCPackage
\* calls returned 0, 1, 2, ... in this order and the channel sequence is their
\* number; a call succeeds unless the chain or the channel is unknown or a
\* package is stored under the current sequence; a successful call returns
\* the current sequence, stores its value under it, changes no other package
\* and advances this channel's sequence, and no other, by one; a failed call
\* returns 0 and changes neither the packages nor the sequences.
C32_SequencesAscend ==
  /\ [](\A c \in IbcChannels :
          /\ Returned(c) = [j \in 1..Len(Returned(c)) |-> j - 1]
          /\ getSequence(c[1], c[2]) = Len(Returned(c)))
  /\ [][Len(ibcLog') > Len(ibcLog) =>
          LET e == ibcLog'[Len(ibcLog')] IN
            /\ ibcLog' = Append(ibcLog, e)
            /\ e.ok <=> /\ Known(e)
                        /\ ibcPackages[<<e.chain, e.channel,
                                         getSequence(e.chain, e.channel)>>] = NoBytes
            /\ e.ok =>
                 /\ e.seq = getSequence(e.chain, e.channel)
                 /\ ibcPackages' =
                      [ibcPackages EXCEPT ![<<e.chain, e.channel, e.seq>>] = e.value]
                 /\ \A c \in IbcChannels :
                      getSequence(c[1], c[2])' =
                        getSequence(c[1], c[2])
                          + (IF c = <<e.chain, e.channel>> THEN 1 ELSE 0)
            /\ ~e.ok =>
                 /\ e.seq = 0
                 /\ ibcPackages' = ibcPackages /\ ibcSequences' = ibcSequences]_vars
\* On one channel a call returned 0, a call with an unknown channel failed,
\* a further call returned 1, and the package under 0 was cleaned up since.
C32_Witness ==
  /\ Len(ibcLog) = 3
  /\ ibcLog[1].ok /\ ~ibcLog[2].ok /\ ibcLog[3].ok
  /\ ibcLog[1].channel = "bind" /\ ibcLog[3].channel = "bind"
  /\ ibcLog[2].channel = "nochannel"
  /\ ibcLog[3].seq = 1
  /\ ibcPackages[<<"bsc", "bind", 0>>] = NoBytes
  /\ ibcPackages[<<"bsc", "bind", 1>>] = ibcLog[3].value

\* The message handled in this step and its outcome.
Handled == oracleLog'[1]
Recorded(id) == {v \in Bonded : prophecies[id] # NoEntry /\ prophecies[id][1].claims[v] # ""}

\* C33: a step of handleClaimMsg changes the sequence of no claim type but
\* the message's; it advances that one by exactly one when the outcome is
\* "executed", which needs the message's Sequence to be the current one and
\* the processed prophecy to have reached success, and leaves it as it was in
\* every other outcome; and a message whose Sequence differs from the current
\* sequence leaves every prophecy as it was.
C33_SequenceAdvancesOnExecution ==
  [][oracleLog' # <<>> =>
       /\ \A t \in ClaimTypes :
            GetCurrentSequence(t)' =
              GetCurrentSequence(t)
                + (IF t = Handled.claimType /\ Handled.outcome = "executed"
                     THEN 1 ELSE 0)
       /\ Handled.outcome = "executed" =>
            /\ Handled.sequence = GetCurrentSequence(Handled.claimType)
            /\ GetClaimHooks(Handled.claimType) # "nil"
            /\ Cardinality(Recorded(<<Handled.claimType, Handled.sequence>>)) + 1
                 = Cardinality(Bonded)
            /\ prophecies'[<<Handled.claimType, Handled.sequence>>] = NoEntry
       /\ (GetClaimTypeName(Handled.claimType) # ""
             /\ Handled.sequence # GetCurrentSequence(Handled.claimType)) =>
            /\ prophecies' = prophecies
            /\ Handled.outcome \in {"no hooks", "check failed", "invalid sequence"}]_vars

\* The last claim needed on the first claim of type "bind" was handled and
\* executed, so the sequence of "bind" is 1, while that of "transferOut" is
\* still 0 although its first prophecy reached success: its execution failed.
C33_Witness ==
  /\ oracleLog = <<[claimType |-> "bind", sequence |-> 0, outcome |-> "executed"]>>
  /\ GetCurrentSequence("bind") = 1
  /\ GetCurrentSequence("transferOut") = 0
  /\ prophecies[<<"transferOut", 0>>] # NoEntry
  /\ prophecies[<<"transferOut", 0>>][1].status = "success"

====
